---- MODULE Spec2Model ----
(***************************************************************************)
(* Model of the crsl-lib content-versioning engine: the operation log and  *)
(* its LWW reducer, the DAG engine with its forward-edge cache, and the    *)
(* transactional repository (Repo::commit_operation) that binds them.      *)
(*                                                                         *)
(* A CID is the hash of a node's canonical encoding.  The hash is modelled *)
(* as injective: a CID is the tuple of the encoded fields, in the order of *)
(* the Node struct.  Option<T> values are sequences of length 0 or 1.      *)
(***************************************************************************)
EXTENDS Integers, Sequences, FiniteSets, TLC

VARIABLES node_db, op_db, edges_forward, last_timestamp, next_ulid, pool, ret,
          n_fail, n_import, r2_node_db, r2_op_db, r2_edges, r2_last_timestamp,
          r2_next_ulid, r2_ret, mirror, red, shared, clock, fn_call

vars == <<node_db, op_db, edges_forward, last_timestamp, next_ulid, pool, ret,
          n_fail, n_import, r2_node_db, r2_op_db, r2_edges, r2_last_timestamp,
          r2_next_ulid, r2_ret, mirror, red, shared, clock, fn_call>>

-----------------------------------------------------------------------------
(* Bounds of the model *)

MaxCalls == 5
MaxWideCalls == 3
MaxReplicaCalls == 4
MaxPool == 2
MaxFail == 1
MaxImport == 1
MaxImportTs == 2
MaxRedOps == 3
MaxRedTs == 2
MaxGraphCalls == 3

Payloads == {"a", "b"}
NoPayload == ""
DefaultMetadata == "lww"
AutoMergeAuthor == "auto-merge"
TestAuthor == "test"

None == <<>>
Some(x) == <<x>>

Range(s) == {s[i] : i \in 1..Len(s)}

(* A CID that is not the hash of any node (tests build such seeds with     *)
(* Cid::new_v1 over arbitrary bytes).                                      *)
RawCid == <<"seed", <<>>, <<>>, 0, "raw">>

-----------------------------------------------------------------------------
(* dasl/node.rs *)

new_genesis(payload, timestamp, metadata) ==
    [payload |-> payload, parents |-> <<>>, genesis |-> None,
     timestamp |-> timestamp, metadata |-> metadata]

new_child(payload, parents, genesis, timestamp, metadata) ==
    [payload |-> payload, parents |-> parents, genesis |-> Some(genesis),
     timestamp |-> timestamp, metadata |-> metadata]

(* an encoding that would leave the parents out *)
to_bytes_without_parents(node) ==
    <<node.payload, <<>>, node.genesis, node.timestamp, node.metadata>>

(* serde_cbor encodes the struct's fields in declaration order *)
to_bytes(node) ==
    <<node.payload, node.parents, node.genesis, node.timestamp, node.metadata>>

content_id(node) == to_bytes(node)

-----------------------------------------------------------------------------
(* graph/storage.rs: reads go to the database, never to the open batch *)

HasNode(db, cid) == \E n \in db : content_id(n) = cid

GetNode(db, cid) == CHOOSE n \in db : content_id(n) = cid

-----------------------------------------------------------------------------
(* graph/dag.rs *)

get_nodes_by_genesis(db, genesis_id) ==
    {cid \in {content_id(n) : n \in db} :
        cid = genesis_id \/ GetNode(db, cid).genesis = Some(genesis_id)}

(* Ok(genesis) as <<cid>>, Err(NodeNotFound) as <<>> *)
get_genesis(db, cid) ==
    IF HasNode(db, cid)
    THEN IF GetNode(db, cid).genesis = None THEN Some(cid)
         ELSE GetNode(db, cid).genesis
    ELSE None

CacheGet(cache, k) == IF k \in DOMAIN cache THEN cache[k] ELSE <<>>

CachePut(cache, k, v) ==
    [x \in DOMAIN cache \cup {k} |-> IF x = k THEN v ELSE cache[x]]

(* for parent in parents: edges_forward.entry(parent).or_default().push(child) *)
RECURSIVE PushEdges(_, _, _)
PushEdges(cache, parents, child) ==
    IF parents = <<>> THEN cache
    ELSE PushEdges(CachePut(cache, Head(parents),
                            Append(CacheGet(cache, Head(parents)), child)),
                   Tail(parents), child)

(* The while loop of ensure_subgraph_cached; the stack is popped from its  *)
(* end.  A parent is never queued: entry(parent).or_default() has inserted *)
(* its key before contains_key(parent) is tested.                          *)
RECURSIVE EnsureLoop(_, _, _)
EnsureLoop(cache, db, to_process) ==
    IF to_process = <<>> THEN cache
    ELSE LET current == to_process[Len(to_process)]
             rest == SubSeq(to_process, 1, Len(to_process) - 1)
         IN IF current \in DOMAIN cache THEN EnsureLoop(cache, db, rest)
            ELSE LET c1 == CachePut(cache, current, <<>>)
                     c2 == IF HasNode(db, current)
                           THEN PushEdges(c1, GetNode(db, current).parents, current)
                           ELSE c1
                 IN EnsureLoop(c2, db, rest)

ensure_subgraph_cached(cache, db, parents) ==
    EnsureLoop(cache, db, SelectSeq(parents, LAMBDA p : p \notin DOMAIN cache))

RECURSIVE CacheReach(_, _)
CacheReach(cache, seen) ==
    LET next == seen \cup UNION {Range(CacheGet(cache, n)) : n \in seen}
    IN IF next = seen THEN seen ELSE CacheReach(cache, next)

path_exists(cache, start, target) == target \in CacheReach(cache, {start})

RECURSIVE StoredAncestors(_, _)
StoredAncestors(db, seen) ==
    LET next == seen \cup UNION {Range(GetNode(db, c).parents) :
                                    c \in {x \in seen : HasNode(db, x)}}
    IN IF next = seen THEN seen ELSE StoredAncestors(db, next)

get_subgraph(db, new_cid, parents) ==
    LET processed == StoredAncestors(db, Range(parents))
        keys == {new_cid} \cup {c \in processed : HasNode(db, c)}
    IN [c \in keys |-> IF HasNode(db, c) /\ c \in processed
                       THEN GetNode(db, c).parents ELSE parents]

RECURSIVE MapReach(_, _)
MapReach(node_map, seen) ==
    LET next == seen \cup {c \in DOMAIN node_map :
                              \E p \in seen : p \in Range(node_map[c])}
    IN IF next = seen THEN seen ELSE MapReach(node_map, next)

(* true iff the graph with an edge parent -> child has a directed cycle *)
detect_cycle_cid(node_map) ==
    \E n \in DOMAIN node_map :
        n \in MapReach(node_map, {c \in DOMAIN node_map : n \in Range(node_map[c])})

(* detect_cycle_cid as the code computes it.  build_adjacency_list: every  *)
(* child and parent is a key; each child is pushed onto the list of each   *)
(* of its parents, once per listing, in the iteration order of node_map.   *)
RECURSIVE PushChildren(_, _, _)
PushChildren(node_map, order, parent) ==
    IF order = <<>> THEN <<>>
    ELSE [i \in 1..Len(SelectSeq(node_map[Head(order)], LAMBDA x : x = parent))
             |-> Head(order)]
         \o PushChildren(node_map, Tail(order), parent)

build_adjacency_list(node_map, order) ==
    [p \in DOMAIN node_map \cup UNION {Range(node_map[c]) : c \in DOMAIN node_map}
        |-> PushChildren(node_map, order, p)]

(* has_cycle: st = [visited, rec_stack, found]; the node leaves rec_stack   *)
(* only when no cycle was found below it                                   *)
RECURSIVE has_cycle(_, _, _)
RECURSIVE VisitNeighbors(_, _, _)

has_cycle(node, graph, st) ==
    IF VisitNeighbors(graph[node], graph,
                      [st EXCEPT !.visited = @ \cup {node},
                                 !.rec_stack = @ \cup {node}]).found
    THEN VisitNeighbors(graph[node], graph,
                        [st EXCEPT !.visited = @ \cup {node},
                                   !.rec_stack = @ \cup {node}])
    ELSE [VisitNeighbors(graph[node], graph,
                         [st EXCEPT !.visited = @ \cup {node},
                                    !.rec_stack = @ \cup {node}])
             EXCEPT !.rec_stack = @ \ {node}]

(* a loop over the neighbours that would take every visited neighbour for  *)
(* the closing edge of a cycle                                             *)
VisitNeighborsVisited(neighbors, graph, st) ==
    IF neighbors = <<>> \/ st.found THEN st
    ELSE IF Head(neighbors) \notin st.visited
    THEN VisitNeighbors(Tail(neighbors), graph, has_cycle(Head(neighbors), graph, st))
    ELSE [st EXCEPT !.found = TRUE]

VisitNeighbors(neighbors, graph, st) ==
    IF neighbors = <<>> \/ st.found THEN st
    ELSE IF Head(neighbors) \notin st.visited
    THEN VisitNeighbors(Tail(neighbors), graph, has_cycle(Head(neighbors), graph, st))
    ELSE IF Head(neighbors) \in st.rec_stack
    THEN [st EXCEPT !.found = TRUE]
    ELSE VisitNeighbors(Tail(neighbors), graph, st)

(* the loop of detect_cycle_cid over graph.keys(), in their iteration order *)
RECURSIVE DetectLoop(_, _, _)
DetectLoop(keys, graph, st) ==
    IF keys = <<>> \/ st.found THEN st
    ELSE IF Head(keys) \in st.visited THEN DetectLoop(Tail(keys), graph, st)
    ELSE DetectLoop(Tail(keys), graph, has_cycle(Head(keys), graph, st))

would_create_cycle_with(cache, db, new_cid, parents) ==
    LET cached == ensure_subgraph_cached(cache, db, parents)
    IN [cache |-> cached,
        cycle |-> (\E p \in Range(parents) : path_exists(cached, p, new_cid))
                  \/ detect_cycle_cid(get_subgraph(db, new_cid, parents))]

find_heads(db, genesis) ==
    LET nodes == get_nodes_by_genesis(db, genesis)
        parents_within == {p \in nodes :
                             \E c \in nodes : p \in Range(GetNode(db, c).parents)}
    IN nodes \ parents_within

(* calculate_latest: the stable sort keeps the iteration order of the      *)
(* node map among leaves of equal timestamp, and that order (a HashMap's)  *)
(* is not fixed: every leaf of maximal timestamp is a possible result.     *)
(* a calculate_latest that would answer the genesis node for every family *)
calculate_latest_genesis(db, genesis_id) == {Some(genesis_id)}

calculate_latest(db, genesis_id) ==
    LET nodes == get_nodes_by_genesis(db, genesis_id)
        leaves == find_heads(db, genesis_id)
    IN IF nodes = {} THEN {None}
       ELSE IF Cardinality(nodes) = 1 THEN {Some(c) : c \in nodes}
       ELSE IF leaves = {} THEN {None}
       ELSE {Some(c) : c \in {l \in leaves :
                \A m \in leaves : GetNode(db, m).timestamp <= GetNode(db, l).timestamp}}

-----------------------------------------------------------------------------
(* DagGraph::add_child_node split in two for the repository's transaction: *)
(* prepare_* builds the node and checks for cycles, register_prepared_node *)
(* updates the forward-edge cache, rollback_pending_node undoes it.        *)

prepare_genesis_node(payload, timestamp, metadata) ==
    LET node == new_genesis(payload, timestamp, metadata)
    IN [cid |-> content_id(node), node |-> node]

prepare_child_node(cache, db, payload, parents, genesis, timestamp, metadata) ==
    LET node == new_child(payload, parents, genesis, timestamp, metadata)
        cid == content_id(node)
        chk == would_create_cycle_with(cache, db, cid, parents)
    IN [cid |-> cid, node |-> node, cache |-> chk.cache,
        err |-> IF chk.cycle THEN "Graph:CycleDetected" ELSE ""]

register_prepared_node(cache, db, cid, node) ==
    LET c1 == PushEdges(ensure_subgraph_cached(cache, db, node.parents),
                        node.parents, cid)
    IN CachePut(c1, cid, CacheGet(c1, cid))

rollback_pending_node(cache, cid, parents) ==
    [k \in DOMAIN cache \ {cid} |->
        IF k \in Range(parents)
        THEN SelectSeq(cache[k], LAMBDA c : c # cid)
        ELSE cache[k]]

-----------------------------------------------------------------------------
(* crdt/timestamp.rs, crdt/operation.rs, crdt/storage.rs, crdt/reducer.rs *)

(* the callers of next_monotonic_timestamp and the calls each makes *)
MaxThreads == 2
MaxClockCalls == 2
(* the timestamp is a u64; the model keeps ClockBits of it *)
ClockBits == 3

wrapping_add(a, b) == (a + b) % (2^ClockBits)

(* a compare_exchange that would store without comparing *)
compare_exchange_blind(current, expected, new) == [ok |-> TRUE, value |-> new]

(* AtomicU64::compare_exchange: the value the cell holds afterwards, and   *)
(* whether the exchange took place                                         *)
compare_exchange(current, expected, new) ==
    IF current = expected
    THEN [ok |-> TRUE, value |-> new]
    ELSE [ok |-> FALSE, value |-> current]

(* one uncontended pass of the compare-exchange loop; wall is the reading  *)
(* of the system clock                                                     *)
(* a timestamp source that would hand out the system clock's reading as is *)
wall_clock_timestamp(last, wall) == wall

next_monotonic_timestamp(last, wall) == IF wall > last THEN wall ELSE last + 1

(* Operation::new: fresh ULID, timestamp from the monotonic source *)
OperationNew(genesis, kind, payload, author, ulid, timestamp) ==
    [id |-> ulid, genesis |-> genesis, kind |-> kind, payload |-> payload,
     timestamp |-> timestamp, author |-> author, parents |-> <<>>,
     node_timestamp |-> None]

OpPayload(op) == IF op.kind = "Delete" THEN None ELSE Some(op.payload)

(* a load that would return the operations of every family *)
load_operations_of_all(ops, genesis) == ops

load_operations(ops, genesis) == {o \in ops : o.genesis = genesis}

(* a maximum that would break timestamp ties by the smaller id *)
MaxOpSmallerId(S) ==
    CHOOSE o \in S : \A x \in S :
        x.timestamp < o.timestamp \/ (x.timestamp = o.timestamp /\ x.id >= o.id)

(* the element max_by / max_by_key return: the greatest by (timestamp, id) *)
MaxOp(S) ==
    CHOOSE o \in S : \A x \in S :
        x.timestamp < o.timestamp \/ (x.timestamp = o.timestamp /\ x.id <= o.id)

reduce(ops) == IF ops = {} THEN None ELSE OpPayload(MaxOp(ops))

get_state(ops, genesis) == reduce(load_operations(ops, genesis))

-----------------------------------------------------------------------------
(* convergence/policies/lww.rs, convergence/resolver.rs *)

(* a resolve that would keep the first of several maximal elements *)
LwwResolveFirst(inputs) ==
    LET best == CHOOSE i \in 1..Len(inputs) :
                   /\ \A j \in 1..Len(inputs) : inputs[j].timestamp <= inputs[i].timestamp
                   /\ \A j \in 1..(i - 1) : inputs[j].timestamp < inputs[i].timestamp
    IN inputs[best].payload

(* Iterator::max_by_key returns the last of several maximal elements *)
LwwResolve(inputs) ==
    LET best == CHOOSE i \in 1..Len(inputs) :
                   /\ \A j \in 1..Len(inputs) : inputs[j].timestamp <= inputs[i].timestamp
                   /\ \A j \in (i + 1)..Len(inputs) : inputs[j].timestamp < inputs[i].timestamp
    IN inputs[best].payload

collect_inputs(db, heads) ==
    [i \in 1..Len(heads) |-> [cid |-> heads[i],
                              payload |-> GetNode(db, heads[i]).payload,
                              timestamp |-> GetNode(db, heads[i]).timestamp]]

(* a create_merge_node that would list the heads in reverse as parents *)
create_merge_node_reversed(db, heads, genesis, timestamp) ==
    IF heads = <<>> THEN [err |-> "Internal:NoHeads", node |-> None]
    ELSE IF \E h \in Range(heads) : ~HasNode(db, h)
    THEN [err |-> "Internal:HeadNotFound", node |-> None]
    ELSE [err |-> "",
          node |-> Some(new_child(LwwResolve(collect_inputs(db, heads)),
                                  [i \in 1..Len(heads) |-> heads[Len(heads) + 1 - i]],
                                  genesis, timestamp,
                                  GetNode(db, heads[1]).metadata))]

(* Err when heads is empty or a head is not stored *)
create_merge_node(db, heads, genesis, timestamp) ==
    IF heads = <<>> THEN [err |-> "Internal:NoHeads", node |-> None]
    ELSE IF \E h \in Range(heads) : ~HasNode(db, h)
    THEN [err |-> "Internal:HeadNotFound", node |-> None]
    ELSE [err |-> "",
          node |-> Some(new_child(LwwResolve(collect_inputs(db, heads)), heads,
                                  genesis, timestamp,
                                  GetNode(db, heads[1]).metadata))]

-----------------------------------------------------------------------------
(* repo.rs: Repo::commit_operation.  A commit is computed over a context   *)
(* c that each step takes and returns: the operation, the forward-edge     *)
(* cache, the clock and ULID sources, the writes staged in the batch       *)
(* (bnodes, bops), the PendingNode list, the counts of storage calls made  *)
(* so far, the CID staged for the operation, the auto-merge node, and the  *)
(* error the commit stopped with ("" if none).                             *)
(* fail = <<call, n>> makes the n-th call of that kind return an error.    *)

NewCtx(cache, last, ulid, op) ==
    [op |-> op, cache |-> cache, last |-> last, ulid |-> ulid, bnodes |-> {},
     bops |-> {}, pending |-> <<>>, puts |-> 0, saves |-> 0, err |-> "",
     cid |-> None, merge |-> None, merge_node |-> None]

(* storage.put into the batch, then register_prepared_node *)
persist_prepared_node(c, db, cid, node, fail) ==
    IF fail = <<"put", c.puts + 1>>
    THEN [c EXCEPT !.puts = @ + 1, !.err = "Graph:Storage"]
    ELSE [c EXCEPT !.puts = @ + 1, !.bnodes = @ \cup {node},
                   !.cache = register_prepared_node(@, db, cid, node)]

PendingNode(cid, node) ==
    [cid |-> cid, parents |-> node.parents, metadata |-> node.metadata]

(* pending.push(PendingNode) once the node is persisted; Ok(cid) *)
PushPending(c, cid, node) ==
    IF c.err # "" THEN c
    ELSE [c EXCEPT !.pending = Append(@, PendingNode(cid, node)), !.cid = Some(cid)]

stage_prepared_node(c, db, cid, node, fail) ==
    PushPending(persist_prepared_node(c, db, cid, node, fail), cid, node)

(* CrdtState::apply: save_operation into the batch *)
apply(c, op, fail) ==
    IF fail = <<"save", c.saves + 1>>
    THEN [c EXCEPT !.saves = @ + 1, !.err = "Storage:save"]
    ELSE [c EXCEPT !.saves = @ + 1,
                   !.bops = {o \in @ : o.id # op.id} \cup {op}]

RECURSIVE rollback_pending_nodes(_, _)
rollback_pending_nodes(cache, pending) ==
    IF pending = <<>> THEN cache
    ELSE rollback_pending_nodes(
             rollback_pending_node(cache, pending[Len(pending)].cid,
                                   pending[Len(pending)].parents),
             SubSeq(pending, 1, Len(pending) - 1))

(* a validation that would only require the parents to be stored *)
validate_parent_stored(db, genesis, parents) ==
    IF \E i \in 1..Len(parents) : get_genesis(db, parents[i]) = None
    THEN "Graph:NodeNotFound" ELSE ""

(* "" when every parent is stored and belongs to genesis; the loop stops   *)
(* at the first parent that fails                                          *)
RECURSIVE validate_parent_genesis(_, _, _)
validate_parent_genesis(db, genesis, parents) ==
    IF parents = <<>> THEN ""
    ELSE IF get_genesis(db, Head(parents)) = None THEN "Graph:NodeNotFound"
    ELSE IF get_genesis(db, Head(parents)) # Some(genesis) THEN "Internal:DoesNotBelong"
    ELSE validate_parent_genesis(db, genesis, Tail(parents))

create_policy(policy_type) ==
    IF policy_type = "lww" THEN "" ELSE "Internal:UnknownPolicy"

PendingWith(pending, cid) == {i \in 1..Len(pending) : pending[i].cid = cid}

FirstPending(pending, cid) ==
    pending[CHOOSE i \in PendingWith(pending, cid) :
               \A j \in PendingWith(pending, cid) : i <= j]

(* the metadata of the genesis node, pending or stored *)
GenesisMetadata(db, genesis, pending, lenient) ==
    IF PendingWith(pending, genesis) # {}
    THEN [err |-> "", metadata |-> FirstPending(pending, genesis).metadata]
    ELSE IF HasNode(db, genesis)
    THEN [err |-> "", metadata |-> GetNode(db, genesis).metadata]
    ELSE IF lenient THEN [err |-> "", metadata |-> DefaultMetadata]
    ELSE [err |-> "Internal:GenesisNotFound", metadata |-> DefaultMetadata]

resolve_metadata(db, genesis, parents, pending, lenient) ==
    IF parents # <<>>
    THEN IF PendingWith(pending, parents[1]) # {}
         THEN [err |-> "", metadata |-> FirstPending(pending, parents[1]).metadata]
         ELSE IF HasNode(db, parents[1])
         THEN [err |-> "", metadata |-> GetNode(db, parents[1]).metadata]
         ELSE IF ~lenient
         THEN [err |-> "Internal:ParentNotFound", metadata |-> DefaultMetadata]
         ELSE GenesisMetadata(db, genesis, pending, lenient)
    ELSE GenesisMetadata(db, genesis, pending, lenient)

(* check_and_merge, the end: if applying the Merge operation failed the    *)
(* merge node is rolled back out of the cache, else it joins the pending   *)
(* list and is the merged head                                             *)
MergeApplied(c, cid, node) ==
    IF c.err # "" THEN [c EXCEPT !.cache = rollback_pending_node(@, cid, node.parents)]
    ELSE [c EXCEPT !.pending = Append(@, PendingNode(cid, node)), !.merge = Some(cid)]

(* a Merge operation that would carry the caller's author *)
MergeOpOfCaller(c, genesis, heads, wall) ==
    [OperationNew(genesis, "Merge", c.merge_node[1].payload, TestAuthor,
                  c.ulid + 1, next_monotonic_timestamp(c.last, wall))
     EXCEPT !.parents = heads]

(* the Merge operation of an auto-merge *)
MergeOp(c, genesis, heads, wall) ==
    [OperationNew(genesis, "Merge", c.merge_node[1].payload, AutoMergeAuthor,
                  c.ulid + 1, next_monotonic_timestamp(c.last, wall))
     EXCEPT !.parents = heads]

(* check_and_merge, second half: the Merge operation is created and applied *)
ApplyMergeOp(c, genesis, heads, fail, wall) ==
    IF c.err # "" THEN c
    ELSE MergeApplied(
             apply([c EXCEPT !.last = next_monotonic_timestamp(@, wall), !.ulid = @ + 1],
                   MergeOp(c, genesis, heads, wall), fail),
             content_id(c.merge_node[1]), c.merge_node[1])

(* check_and_merge, first half: the merge node is resolved from the heads, *)
(* checked for cycles and persisted.  c.last is the merge timestamp.       *)
PersistMergeNode(c, db, genesis, heads, fail) ==
    LET merged == create_merge_node(db, heads, genesis, c.last)
        prep == prepare_child_node(c.cache, db, merged.node[1].payload, heads, genesis,
                                   c.last, merged.node[1].metadata)
    IN IF merged.err # "" THEN [c EXCEPT !.err = merged.err]
       ELSE IF prep.err # "" THEN [c EXCEPT !.cache = prep.cache, !.err = prep.err]
       ELSE persist_prepared_node([c EXCEPT !.cache = prep.cache,
                                            !.merge_node = Some(prep.node)],
                                  db, prep.cid, prep.node, fail)

(* heads is find_heads(genesis) in the order the node map was iterated *)
check_and_merge(c, db, genesis, heads, fail, wall) ==
    IF Len(heads) <= 1 THEN c
    ELSE IF ~HasNode(db, genesis) THEN [c EXCEPT !.err = "Internal:GenesisNotFound"]
    ELSE IF create_policy(GetNode(db, genesis).metadata) # ""
    THEN [c EXCEPT !.err = create_policy(GetNode(db, genesis).metadata)]
    ELSE IF validate_parent_genesis(db, genesis, heads) # ""
    THEN [c EXCEPT !.err = validate_parent_genesis(db, genesis, heads)]
    ELSE ApplyMergeOp(
             PersistMergeNode([c EXCEPT !.last = next_monotonic_timestamp(@, wall)],
                              db, genesis, heads, fail),
             genesis, heads, fail, wall)

(* a choice of parent that would overlook the merged head *)
UseLatestOnly(c, db) ==
    IF c.err # "" THEN c
    ELSE IF None \in calculate_latest(db, c.op.genesis)
    THEN [c EXCEPT !.err = "Internal:NoHeadAvailable"]
    ELSE [c EXCEPT !.op.parents =
             <<(CHOOSE l \in calculate_latest(db, c.op.genesis) : TRUE)[1]>>]

(* a choice of parent that would always take the genesis *)
UseGenesis(c, db) ==
    IF c.err # "" THEN c ELSE [c EXCEPT !.op.parents = <<c.op.genesis>>]

(* ensure_parent_context, empty parents: the merged head if check_and_merge *)
(* made one, else latest(genesis), becomes the only parent                  *)
(* a fallback that would attach the operation to the genesis CID itself    *)
(* when the family has no latest node                                      *)
UseHeadOrGenesis(c, db) ==
    IF c.err # "" THEN c
    ELSE IF c.merge # None THEN [c EXCEPT !.op.parents = <<c.merge[1]>>]
    ELSE IF None \in calculate_latest(db, c.op.genesis)
    THEN [c EXCEPT !.op.parents = <<c.op.genesis>>]
    ELSE [c EXCEPT !.op.parents =
             <<(CHOOSE l \in calculate_latest(db, c.op.genesis) : TRUE)[1]>>]

UseHead(c, db) ==
    IF c.err # "" THEN c
    ELSE IF c.merge # None THEN [c EXCEPT !.op.parents = <<c.merge[1]>>]
    ELSE IF None \in calculate_latest(db, c.op.genesis)
    THEN [c EXCEPT !.err = "Internal:NoHeadAvailable"]
    ELSE [c EXCEPT !.op.parents =
             <<(CHOOSE l \in calculate_latest(db, c.op.genesis) : TRUE)[1]>>]

(* an ensure_parent_context that would merge the heads also when the       *)
(* caller named the parents                                                *)
ensure_parent_context_merging(c, db, heads, fail, wall) ==
    IF c.op.kind \in {"Update", "Delete"}
    THEN IF c.op.parents = <<>>
         THEN UseHead(check_and_merge(c, db, c.op.genesis, heads, fail, wall), db)
         ELSE [check_and_merge(c, db, c.op.genesis, heads, fail, wall)
                 EXCEPT !.err = IF @ # "" THEN @
                                ELSE validate_parent_genesis(db, c.op.genesis, c.op.parents)]
    ELSE IF c.op.kind = "Merge"
    THEN IF c.op.parents = <<>>
         THEN [c EXCEPT !.op.parents = heads,
                        !.err = validate_parent_genesis(db, c.op.genesis, heads)]
         ELSE [c EXCEPT !.err = validate_parent_genesis(db, c.op.genesis, c.op.parents)]
    ELSE c

ensure_parent_context(c, db, heads, fail, wall) ==
    IF c.op.kind \in {"Update", "Delete"}
    THEN IF c.op.parents = <<>>
         THEN UseHead(check_and_merge(c, db, c.op.genesis, heads, fail, wall), db)
         ELSE [c EXCEPT !.err = validate_parent_genesis(db, c.op.genesis, c.op.parents)]
    ELSE IF c.op.kind = "Merge"
    THEN IF c.op.parents = <<>>
         THEN [c EXCEPT !.op.parents = heads,
                        !.err = validate_parent_genesis(db, c.op.genesis, heads)]
         ELSE [c EXCEPT !.err = validate_parent_genesis(db, c.op.genesis, c.op.parents)]
    ELSE c

(* a stage_create that would not compare the CID of an import *)
stage_create_unchecked(c, db, timestamp, fail) ==
    stage_prepared_node(
        [c EXCEPT !.op.genesis = IF c.op.node_timestamp # None THEN @
                                 ELSE content_id(new_genesis(c.op.payload, timestamp,
                                                             DefaultMetadata))],
        db, content_id(new_genesis(c.op.payload, timestamp, DefaultMetadata)),
        new_genesis(c.op.payload, timestamp, DefaultMetadata), fail)

(* a stage_create that would leave a local Create under the genesis the    *)
(* caller passed                                                           *)
stage_create_keeping_genesis(c, db, timestamp, fail) ==
    IF c.op.node_timestamp # None
       /\ content_id(new_genesis(c.op.payload, timestamp, DefaultMetadata)) # c.op.genesis
    THEN [c EXCEPT !.err = "Internal:CidMismatch"]
    ELSE stage_prepared_node(
             c, db, content_id(new_genesis(c.op.payload, timestamp, DefaultMetadata)),
             new_genesis(c.op.payload, timestamp, DefaultMetadata), fail)

stage_create(c, db, timestamp, fail) ==
    LET prep == prepare_genesis_node(c.op.payload, timestamp, DefaultMetadata)
    IN IF c.op.node_timestamp # None
       THEN IF prep.cid # c.op.genesis THEN [c EXCEPT !.err = "Internal:CidMismatch"]
            ELSE stage_prepared_node(c, db, prep.cid, prep.node, fail)
       ELSE stage_prepared_node([c EXCEPT !.op.genesis = prep.cid], db,
                                prep.cid, prep.node, fail)

(* the common body of stage_update, stage_delete and stage_merge *)
StageChild(c, db, payload, timestamp, lenient, fail) ==
    LET md == resolve_metadata(db, c.op.genesis, c.op.parents, c.pending, lenient)
        prep == prepare_child_node(c.cache, db, payload, c.op.parents, c.op.genesis,
                                   timestamp, md.metadata)
    IN IF md.err # "" THEN [c EXCEPT !.err = md.err]
       ELSE IF prep.err # "" THEN [c EXCEPT !.cache = prep.cache, !.err = prep.err]
       ELSE stage_prepared_node([c EXCEPT !.cache = prep.cache], db,
                                prep.cid, prep.node, fail)

stage_update(c, db, timestamp, fail) ==
    StageChild(c, db, c.op.payload, timestamp, c.op.node_timestamp # None, fail)

(* the payload of the stored operation of the family with the greatest     *)
(* timestamp among those that carry a payload.  The operations stored      *)
(* for one family never share a timestamp here (each comes from            *)
(* Operation::new on one monotonic source), so max_by_key has one maximum. *)
(* a lookup that would only ever find the Create operations *)
WithPayloadOfCreate(ops, genesis) ==
    {o \in load_operations(ops, genesis) : o.kind = "Create"}

WithPayload(ops, genesis) == {o \in load_operations(ops, genesis) : OpPayload(o) # None}

(* a stage_delete that would store a node without payload when the log     *)
(* holds no content                                                        *)
stage_delete_unchecked(c, db, ops, timestamp, fail) ==
    IF WithPayload(ops, c.op.genesis) = {}
    THEN StageChild(c, db, NoPayload, timestamp, c.op.node_timestamp # None, fail)
    ELSE StageChild(c, db, MaxOp(WithPayload(ops, c.op.genesis)).payload, timestamp,
                    c.op.node_timestamp # None, fail)

stage_delete(c, db, ops, timestamp, fail) ==
    IF WithPayload(ops, c.op.genesis) = {}
    THEN [c EXCEPT !.err = "Internal:ContentMustExist"]
    ELSE StageChild(c, db, MaxOp(WithPayload(ops, c.op.genesis)).payload, timestamp,
                    c.op.node_timestamp # None, fail)

stage_merge(c, db, timestamp, fail) ==
    StageChild(c, db, c.op.payload, timestamp, TRUE, fail)

(* SharedLeveldb::commit_batch publishes the staged writes together;       *)
(* dropping the guard (abort_batch) discards them                          *)
(* a commit_batch that would take the batch and write nothing *)
commit_batch_dropping(db, staged) == db

commit_batch(db, staged) == db \cup staged

(* an abort that would publish the staged writes *)
abort_batch_publishing(db, staged) == db \cup staged

abort_batch(db, staged) == db

SaveAll(ops, staged) == {o \in ops : \A b \in staged : b.id # o.id} \cup staged

(* commit_operation_internal, step by step.  An early return by `?` drops  *)
(* the batch guard and leaves the cache as it is; the two explicit error   *)
(* branches (apply, batch commit) also roll the pending nodes back.        *)

(* imports skip ensure_parent_context *)
ParentContext(c, db, heads, fail, wall) ==
    IF c.op.node_timestamp = None THEN ensure_parent_context(c, db, heads, fail, wall)
    ELSE c

StageKind(c, db, ops, timestamp, fail) ==
    CASE c.op.kind = "Create" -> stage_create(c, db, timestamp, fail)
      [] c.op.kind = "Update" -> stage_update(c, db, timestamp, fail)
      [] c.op.kind = "Delete" -> stage_delete(c, db, ops, timestamp, fail)
      [] c.op.kind = "Merge" /\ c.op.node_timestamp = None ->
             [c EXCEPT !.err = "Internal:MergeViaAutoMerge"]
      [] OTHER -> stage_merge(c, db, timestamp, fail)

(* the node's timestamp: node_timestamp of an import, else the next clock value *)
Stage(c, db, ops, fail, wall) ==
    IF c.err # "" THEN c
    ELSE IF c.op.node_timestamp # None
    THEN StageKind(c, db, ops, c.op.node_timestamp[1], fail)
    ELSE StageKind([c EXCEPT !.last = next_monotonic_timestamp(@, wall)], db, ops,
                   next_monotonic_timestamp(c.last, wall), fail)

RollbackOnError(c) ==
    IF c.err # "" THEN [c EXCEPT !.cache = rollback_pending_nodes(@, c.pending)] ELSE c

ApplyStaged(c, fail) ==
    IF c.err # "" THEN c ELSE RollbackOnError(apply(c, c.op, fail))

CommitBatch(c, fail) ==
    IF c.err # "" THEN c
    ELSE IF fail = <<"commit", 1>>
    THEN RollbackOnError([c EXCEPT !.err = "Storage:commit"])
    ELSE c

Result(db, ops, c, opened) ==
    [nodes |-> IF c.err = "" THEN commit_batch(db, c.bnodes) ELSE abort_batch(db, c.bnodes),
     ops |-> IF c.err = "" THEN SaveAll(ops, c.bops) ELSE abort_batch(ops, c.bops),
     cache |-> c.cache, last |-> c.last, ulid |-> c.ulid,
     status |-> IF c.err = "" THEN "ok" ELSE "err", err |-> c.err,
     cid |-> IF c.err = "" THEN c.cid ELSE None,
     merge |-> IF c.err = "" THEN c.merge ELSE None,
     op |-> c.op, batch_opened |-> opened, puts |-> c.puts, saves |-> c.saves]

commit_operation_internal(db, ops, cache, last, ulid, op, heads, fail, wall) ==
    Result(db, ops,
           CommitBatch(
               ApplyStaged(
                   Stage(ParentContext(NewCtx(cache, last, ulid, op), db, heads, fail, wall),
                         db, ops, fail, wall),
                   fail),
               fail),
           TRUE)

(* a commit_operation that would not turn manual Merge operations away *)
commit_operation_unguarded(db, ops, cache, last, ulid, op, heads, fail, wall) ==
    commit_operation_internal(db, ops, cache, last, ulid, op, heads, fail, wall)

commit_operation(db, ops, cache, last, ulid, op, heads, fail, wall) ==
    IF op.kind = "Merge" /\ op.node_timestamp = None
    THEN Result(db, ops, [NewCtx(cache, last, ulid, op) EXCEPT !.err = "Internal:ManualMerge"],
                FALSE)
    ELSE commit_operation_internal(db, ops, cache, last, ulid, op, heads, fail, wall)

-----
(* The repository as a state machine *)

Perms(S) == {q \in [1..Cardinality(S) -> S] : \A i, j \in 1..Cardinality(S) : q[i] = q[j] => i = j}

StoredCids(db) == {content_id(n) : n \in db}

KnownCids(db) == StoredCids(db) \cup {RawCid}

Genesises(db) == {content_id(n) : n \in {m \in db : m.genesis = None}}

(* Repo::branching_history at one key: the family's nodes that list cid as *)
(* a parent                                                                *)
children_of(db, genesis, cid) ==
    {c \in get_nodes_by_genesis(db, genesis) : cid \in Range(GetNode(db, c).parents)}

(* The order of CIDs is the byte order of their hashes, which the model's  *)
(* CIDs do not have; a fixed total order on the hashed fields stands for   *)
(* it: timestamp, payload, metadata, genesis, then the parents.            *)
StrCode(str) ==
    CASE str = "" -> 0 [] str = "a" -> 1 [] str = "b" -> 2 [] str = "lww" -> 3
      [] str = "raw" -> 4 [] OTHER -> 5

RECURSIVE cid_cmp(_, _)
RECURSIVE cids_cmp(_, _)
(* Ord for Cid: -1, 0 or 1 *)
cid_cmp(a, b) ==
    IF a = b THEN 0
    ELSE IF a[4] # b[4] THEN (IF a[4] < b[4] THEN -1 ELSE 1)
    ELSE IF StrCode(a[1]) # StrCode(b[1])
         THEN (IF StrCode(a[1]) < StrCode(b[1]) THEN -1 ELSE 1)
    ELSE IF StrCode(a[5]) # StrCode(b[5])
         THEN (IF StrCode(a[5]) < StrCode(b[5]) THEN -1 ELSE 1)
    ELSE IF cids_cmp(a[3], b[3]) # 0 THEN cids_cmp(a[3], b[3])
    ELSE cids_cmp(a[2], b[2])

cids_cmp(s, t) ==
    IF Len(s) # Len(t) THEN (IF Len(s) < Len(t) THEN -1 ELSE 1)
    ELSE IF s = <<>> THEN 0
    ELSE IF cid_cmp(Head(s), Head(t)) # 0 THEN cid_cmp(Head(s), Head(t))
    ELSE cids_cmp(Tail(s), Tail(t))

RECURSIVE sort_descending(_)
(* a sort that would put the greatest CID first *)
sort_descending(set) ==
    IF set = {} THEN <<>>
    ELSE <<CHOOSE x \in set : \A y \in set : cid_cmp(x, y) >= 0>>
            \o sort_descending(set \ {CHOOSE x \in set : \A y \in set : cid_cmp(x, y) >= 0})

RECURSIVE sort(_)
(* children.sort() on the collected HashSet *)
sort(set) ==
    IF set = {} THEN <<>>
    ELSE <<CHOOSE x \in set : \A y \in set : cid_cmp(x, y) <= 0>>
            \o sort(set \ {CHOOSE x \in set : \A y \in set : cid_cmp(x, y) <= 0})

(* Repo::branching_history: parent -> sorted children; the keys of the     *)
(* adjacency map are the family's nodes and their parents                  *)
branching_history(db, genesis) ==
    [p \in get_nodes_by_genesis(db, genesis)
              \cup UNION {Range(GetNode(db, c).parents) :
                             c \in get_nodes_by_genesis(db, genesis)}
        |-> sort(children_of(db, genesis, p))]

(* a node_characteristics that would ignore the number of parents *)
node_characteristics_by_timestamp(db, cid) == <<FALSE, GetNode(db, cid).timestamp>>

(* (is_merge, timestamp) *)
node_characteristics(db, cid) ==
    <<Len(GetNode(db, cid).parents) > 1, GetNode(db, cid).timestamp>>

(* the children the loop of linear_history can end up with: best is only   *)
(* replaced by a strictly greater tuple, so among children of equal tuple  *)
(* the first of the CID-sorted list stays; the CID order is that of the    *)
(* hash bytes, so any of them may be it                                    *)
(* the derived order of (bool, u64): false < true, then the timestamps     *)
BestChildren(db, children) ==
    {c \in children :
        \A d \in children :
           ~(\/ node_characteristics(db, d)[1] /\ ~node_characteristics(db, c)[1]
             \/ /\ node_characteristics(db, d)[1] = node_characteristics(db, c)[1]
                /\ node_characteristics(db, d)[2] > node_characteristics(db, c)[2])}

(* the loop of linear_history from current: the set of paths it can return *)
RECURSIVE LinearWalk(_, _, _, _, _)
LinearWalk(db, genesis, current, visited, path) ==
    IF current \in visited THEN {path}
    ELSE IF children_of(db, genesis, current) = {} THEN {Append(path, current)}
    ELSE UNION {LinearWalk(db, genesis, next, visited \cup {current}, Append(path, current)) :
                   next \in BestChildren(db, children_of(db, genesis, current))}

linear_history(db, genesis) == LinearWalk(db, genesis, genesis, {}, <<>>)

NoOp == OperationNew(RawCid, "Create", NoPayload, TestAuthor, 0, 0)

NoRet == [seq |-> 0, status |-> "none", err |-> "", cid |-> None, merge |-> None,
          arg |-> NoOp, op |-> NoOp, batch_opened |-> FALSE, puts |-> 0, saves |-> 0]

RetOf(r, arg, seq) ==
    [seq |-> seq, status |-> r.status, err |-> r.err, cid |-> r.cid, merge |-> r.merge,
     arg |-> arg, op |-> r.op, batch_opened |-> r.batch_opened, puts |-> r.puts,
     saves |-> r.saves]

NoRed == [seq |-> 0, genesis |-> RawCid, state |-> None]

(* SharedLeveldb::open: an empty database, no active batch, no guard alive *)
SharedLeveldbOpen ==
    [db |-> {}, active_batch |-> None, guard |-> FALSE, last |-> "open", calls |-> 0,
     begun |-> 0]

(* a function called on its own: its name, its argument and what it        *)
(* returned; nothing has been called yet                                   *)
NoCall == [seq |-> 0, name |-> "", input |-> <<>>, output |-> <<>>]

(* the process-wide LAST_TIMESTAMP and the callers of                      *)
(* next_monotonic_timestamp, none of them started                          *)
NoClock ==
    [last |-> 0,
     threads |-> [t \in 1..MaxThreads |-> [pc |-> "idle", ts |-> 0, last |-> 0, calls |-> 0]],
     returned |-> <<>>]

Init ==
    /\ node_db = {} /\ op_db = {} /\ edges_forward = <<>>
    /\ last_timestamp = 0 /\ next_ulid = 0 /\ pool = {}
    /\ ret = NoRet /\ n_fail = 0 /\ n_import = 0
    /\ r2_node_db = {} /\ r2_op_db = {} /\ r2_edges = <<>>
    /\ r2_last_timestamp = 0 /\ r2_next_ulid = 0 /\ r2_ret = NoRet
    /\ mirror = <<>> /\ red = NoRed
    /\ shared = SharedLeveldbOpen /\ clock = NoClock /\ fn_call = NoCall

Replica2Unchanged ==
    UNCHANGED <<r2_node_db, r2_op_db, r2_edges, r2_last_timestamp, r2_next_ulid, r2_ret,
                mirror, red, shared, clock, fn_call>>

(* the call returns r: the stores, the cache and the counters take its values *)
Return(r, arg, fail) ==
    /\ fail = <<"none", 0>> \/ r.err \in {"Graph:Storage", "Storage:save", "Storage:commit"}
    /\ r.status = "err" => n_fail < MaxFail
    /\ node_db' = r.nodes /\ op_db' = r.ops /\ edges_forward' = r.cache
    /\ last_timestamp' = r.last /\ next_ulid' = r.ulid
    /\ ret' = RetOf(r, arg, ret.seq + 1)
    /\ n_fail' = IF r.status = "err" THEN n_fail + 1 ELSE n_fail

(* repo.commit_operation(op); last and ulid are the process-wide sources *)
Call(op, last, ulid, heads, fail, wall) ==
    Return(commit_operation(node_db, op_db, edges_forward, last, ulid, op, heads, fail, wall),
           op, fail)

(* make_test_operation: Operation::new with the next ULID and timestamp *)
MakeOperation(in, ulid, last, wall) ==
    [OperationNew(in.genesis, in.kind, in.payload, TestAuthor, ulid + 1,
                  next_monotonic_timestamp(last, wall))
     EXCEPT !.parents = in.parents]

(* The caller creates an operation, may push parents onto it, and commits  *)
(* it.  in = [kind, payload, genesis, parents].                            *)
CommitNew(op, heads, fail, wall) == Call(op, op.timestamp, op.id, heads, fail, wall)

Commit(in, max, wall) ==
    /\ ret.seq < max
    /\ \E heads \in Perms(find_heads(node_db, in.genesis)) :
          CommitNew(MakeOperation(in, next_ulid, last_timestamp, wall), heads,
                    <<"none", 0>>, wall)
    /\ UNCHANGED <<n_import, pool>>
    /\ Replica2Unchanged

(* the same, with a storage call that fails during the commit *)
CommitFailing(in, fail, max, wall) ==
    /\ ret.seq < max
    /\ fail # <<"none", 0>>
    /\ \E heads \in Perms(find_heads(node_db, in.genesis)) :
          CommitNew(MakeOperation(in, next_ulid, last_timestamp, wall), heads, fail, wall)
    /\ UNCHANGED <<n_import, pool>>
    /\ Replica2Unchanged

(* an import: the caller also sets node_timestamp *)
ImportOperation(in, node_timestamp, ulid, last, wall) ==
    [MakeOperation(in, ulid, last, wall) EXCEPT !.node_timestamp = Some(node_timestamp)]

Import(in, node_timestamp, max, wall) ==
    /\ ret.seq < max
    /\ n_import < MaxImport
    /\ CommitNew(ImportOperation(in, node_timestamp, next_ulid, last_timestamp, wall),
                 <<>>, <<"none", 0>>, wall)
    /\ n_import' = n_import + 1
    /\ UNCHANGED pool
    /\ Replica2Unchanged

(* readings of the system clock: stalled, or one tick ahead *)
Walls(last) == {0, last + 1}

Input(kind, payload, genesis, parents) ==
    [kind |-> kind, payload |-> payload, genesis |-> genesis, parents |-> parents]

(* Inputs of the base specification: operations on the stored families,    *)
(* with no parent or one stored parent named.                              *)
Inputs(db) ==
    {Input("Create", "a", RawCid, <<>>)}
    \cup {Input("Update", p, g, ps) :
             p \in Payloads, g \in Genesises(db),
             ps \in {<<>>} \cup {<<c>> : c \in StoredCids(db)}}
    \cup {Input("Delete", NoPayload, g, ps) :
             g \in Genesises(db), ps \in {<<>>} \cup {<<c>> : c \in StoredCids(db)}}
    \cup {Input("Merge", "b", g, <<>>) : g \in Genesises(db)}

(* what an import can carry: a Create whose genesis is the CID of its node *)
(* or is not, and the other operations                                     *)
ImportsOf(inputs, t) ==
    {Input("Create", "a", g, <<>>) :
        g \in {RawCid, content_id(new_genesis("a", t, DefaultMetadata))}}
    \cup {in \in inputs : in.kind # "Create"}

Next ==
    \/ \E in \in Inputs(node_db), wall \in Walls(last_timestamp) :
          Commit(in, MaxCalls, wall)
    \/ \E in \in Inputs(node_db), wall \in Walls(last_timestamp),
          fail \in {<<"none", 0>>, <<"put", 1>>, <<"put", 2>>,
                    <<"save", 1>>, <<"save", 2>>, <<"commit", 1>>} :
          CommitFailing(in, fail, MaxCalls, wall)

Spec == Init /\ [][Next]_vars

(* Inputs of the wide specification: any known CID as genesis, parent      *)
(* lists of up to two known CIDs, and imports.                             *)
ParentLists(db) ==
    {<<>>} \cup {<<p>> : p \in KnownCids(db)}
           \cup {<<pq[1], pq[2]>> : pq \in {x \in KnownCids(db) \X KnownCids(db) : x[1] # x[2]}}

WideInputs(db) ==
    {Input("Create", "a", RawCid, <<>>)}
    \cup {Input("Update", p, g, ps) :
             p \in Payloads, g \in KnownCids(db), ps \in ParentLists(db)}
    \cup {Input("Delete", NoPayload, g, ps) : g \in KnownCids(db), ps \in ParentLists(db)}
    \cup {Input("Merge", "b", g, ps) : g \in KnownCids(db), ps \in ParentLists(db)}

NextWide ==
    \/ \E in \in WideInputs(node_db), wall \in Walls(last_timestamp) :
          Commit(in, MaxWideCalls, wall)
    \/ \E t \in 1..MaxImportTs, wall \in Walls(last_timestamp) :
         \E in \in ImportsOf(WideInputs(node_db), t) :
            Import(in, t, MaxWideCalls, wall)

SpecWide == Init /\ [][NextWide]_vars

-----------------------------------------------------------------------------
(* Imports without a limit on their number: operations whose one parent,   *)
(* if any, is a known CID, next to the local commits of the base           *)
(* specification.  The clock ticks between the calls.                      *)

ImportAny(in, node_timestamp, max, wall) ==
    /\ ret.seq < max
    /\ CommitNew(ImportOperation(in, node_timestamp, next_ulid, last_timestamp, wall),
                 <<>>, <<"none", 0>>, wall)
    /\ n_import' = n_import + 1
    /\ UNCHANGED pool
    /\ Replica2Unchanged

SingleParents(db) == {<<>>} \cup {<<p>> : p \in KnownCids(db)}

NextGraph ==
    \/ \E in \in Inputs(node_db), wall \in Walls(last_timestamp) :
          Commit(in, MaxGraphCalls, wall)
    \/ \E t \in 1..MaxImportTs :
         \E in \in ImportsOf({Input(k[1], k[2], g, ps) :
                                 k \in {<<"Update", "a">>, <<"Update", "b">>,
                                        <<"Delete", NoPayload>>, <<"Merge", "a">>},
                                 g \in Genesises(node_db) \cup {RawCid},
                                 ps \in SingleParents(node_db)}, t) :
            ImportAny(in, t, MaxGraphCalls, last_timestamp + 1)

SpecGraph == Init /\ [][NextGraph]_vars

-----------------------------------------------------------------------------
(* A family built by commits with empty parents only *)

SpecLinear ==
    Init /\ [][\E in \in {Input("Create", "a", RawCid, <<>>)}
                         \cup {Input("Update", p, g, <<>>) :
                                  p \in Payloads, g \in KnownCids(node_db)}
                         \cup {Input("Delete", NoPayload, g, <<>>) :
                                  g \in KnownCids(node_db)},
                   wall \in Walls(last_timestamp) :
                  Commit(in, MaxCalls, wall)]_vars

-----------------------------------------------------------------------------
(* A repository whose DAG also receives genesis nodes directly, with no    *)
(* operation logged for them, as                                           *)
(* test_delete_operation_without_existing_payload_fails builds one:        *)
(* prepare_genesis_node, storage.put, register_prepared_node.              *)

MaxDanglingCalls == 2

DanglingTimestamp == 1000

PutGenesisNode(payload) ==
    LET prep == prepare_genesis_node(payload, DanglingTimestamp, DefaultMetadata)
    IN /\ ~HasNode(node_db, prep.cid)
       /\ node_db' = node_db \cup {prep.node}
       /\ edges_forward' = register_prepared_node(edges_forward, node_db, prep.cid, prep.node)
       /\ UNCHANGED <<op_db, last_timestamp, next_ulid, pool, ret, n_fail, n_import>>
       /\ Replica2Unchanged

(* operations on any known CID as genesis, with no parent or one known CID *)
(* as parent                                                               *)
DanglingInputs(db) ==
    {Input("Create", "a", RawCid, <<>>)}
    \cup {Input("Update", p, g, ps) :
             p \in Payloads, g \in KnownCids(db), ps \in SingleParents(db)}
    \cup {Input("Delete", NoPayload, g, ps) : g \in KnownCids(db), ps \in SingleParents(db)}

NextDangling ==
    \/ \E payload \in Payloads : PutGenesisNode(payload)
    \/ \E in \in DanglingInputs(node_db), wall \in Walls(last_timestamp) :
          Commit(in, MaxDanglingCalls, wall)
    \/ \E t \in 1..MaxImportTs, wall \in Walls(last_timestamp) :
         \E in \in ImportsOf(DanglingInputs(node_db), t) :
            Import(in, t, MaxDanglingCalls, wall)

SpecDangling == Init /\ [][NextDangling]_vars

-----------------------------------------------------------------------------
(* Two replicas.  Replica 1 creates operations (Operation::new takes the   *)
(* timestamp), keeps them in a pool and commits them in any order; what a  *)
(* commit produced is queued in mirror.  Replica 2 imports the queue in    *)
(* order, as test_import_operation_update_preserves_cid does: a new        *)
(* operation of the same kind, payload and genesis, with the parents and   *)
(* the timestamp of the node replica 1 made.                               *)

NewOperation(in, wall) ==
    /\ mirror = <<>>
    /\ Cardinality(pool) < MaxPool
    /\ ret.seq + Cardinality(pool) < MaxReplicaCalls
    /\ pool' = pool \cup {MakeOperation(in, next_ulid, last_timestamp, wall)}
    /\ last_timestamp' = next_monotonic_timestamp(last_timestamp, wall)
    /\ next_ulid' = next_ulid + 1
    /\ UNCHANGED <<node_db, op_db, edges_forward, ret, n_fail, n_import>>
    /\ Replica2Unchanged

(* what replica 2 is handed for a node replica 1 stored *)
MirrorEntry(db, cid, kind, payload, genesis, latest) ==
    [cid |-> cid, kind |-> kind, payload |-> payload, genesis |-> genesis,
     parents |-> GetNode(db, cid).parents, node_timestamp |-> GetNode(db, cid).timestamp,
     latest |-> latest]

(* the auto-merge node first, if there is one, then the operation's node *)
MirrorOf(r) ==
    IF r.status # "ok" THEN <<>>
    ELSE (IF r.merge = None THEN <<>>
          ELSE <<MirrorEntry(r.nodes, r.merge[1], "Merge",
                             GetNode(r.nodes, r.merge[1]).payload, r.op.genesis, {})>>)
         \o <<MirrorEntry(r.nodes, r.cid[1], r.op.kind, r.op.payload, r.op.genesis,
                          calculate_latest(r.nodes, r.op.genesis))>>

CommitPooled(op, wall) ==
    /\ op \in pool
    /\ mirror = <<>>
    /\ \E heads \in Perms(find_heads(node_db, op.genesis)) :
          /\ Call(op, last_timestamp, next_ulid, heads, <<"none", 0>>, wall)
          /\ mirror' = MirrorOf(commit_operation(node_db, op_db, edges_forward,
                                                 last_timestamp, next_ulid, op, heads,
                                                 <<"none", 0>>, wall))
    /\ pool' = pool \ {op}
    /\ UNCHANGED <<n_import, r2_node_db, r2_op_db, r2_edges, r2_last_timestamp,
                   r2_next_ulid, r2_ret, red, shared, clock, fn_call>>

ReturnImport(r, arg) ==
    /\ r2_node_db' = r.nodes /\ r2_op_db' = r.ops /\ r2_edges' = r.cache
    /\ r2_last_timestamp' = r.last /\ r2_next_ulid' = r.ulid
    /\ r2_ret' = RetOf(r, arg, r2_ret.seq + 1)

ImportCall(op, wall) ==
    ReturnImport(commit_operation(r2_node_db, r2_op_db, r2_edges, op.timestamp, op.id, op,
                                  <<>>, <<"none", 0>>, wall),
                 op)

ImportNext(wall) ==
    /\ mirror # <<>>
    /\ ImportCall(ImportOperation(Head(mirror), Head(mirror).node_timestamp,
                                  r2_next_ulid, r2_last_timestamp, wall), wall)
    /\ mirror' = Tail(mirror)
    /\ UNCHANGED <<red, shared, clock, fn_call>>
    /\ UNCHANGED <<node_db, op_db, edges_forward, last_timestamp, next_ulid, pool, ret,
                   n_fail, n_import>>

NextReplica ==
    \/ \E in \in {i \in Inputs(node_db) : i.kind # "Merge"}, wall \in Walls(last_timestamp) :
          NewOperation(in, wall)
    \/ \E op \in pool, wall \in Walls(last_timestamp) : CommitPooled(op, wall)
    \/ \E wall \in Walls(r2_last_timestamp) : ImportNext(wall)

SpecReplica == Init /\ [][NextReplica]_vars

-----------------------------------------------------------------------------
(* The reducer over operation logs drawn from a bounded set: identifiers   *)
(* 1..MaxRedOps, timestamps 1..MaxRedTs (so that timestamps tie), two      *)
(* genesis values and the four kinds.                                      *)

RedGenesis == {RawCid, content_id(new_genesis("a", 1, DefaultMetadata))}

RedKinds == {<<"Create", "a">>, <<"Update", "b">>, <<"Merge", "a">>, <<"Delete", NoPayload>>}

RedOps(f) ==
    {OperationNew(f[i][4], f[i][1], f[i][2], TestAuthor, i, f[i][3]) :
        i \in {j \in 1..MaxRedOps : f[j][1] # "none"}}

InitReduce ==
    /\ node_db = {} /\ edges_forward = <<>>
    /\ op_db \in {RedOps(f) :
                    f \in [1..MaxRedOps ->
                            {<<"none", NoPayload, 1, RawCid>>}
                            \cup {<<k[1], k[2], t, g>> :
                                     k \in RedKinds, t \in 1..MaxRedTs, g \in RedGenesis}]}
    /\ last_timestamp = 0 /\ next_ulid = 0 /\ pool = {}
    /\ ret = NoRet /\ n_fail = 0 /\ n_import = 0
    /\ r2_node_db = {} /\ r2_op_db = {} /\ r2_edges = <<>>
    /\ r2_last_timestamp = 0 /\ r2_next_ulid = 0 /\ r2_ret = NoRet
    /\ mirror = <<>> /\ red = NoRed
    /\ shared = SharedLeveldbOpen /\ clock = NoClock /\ fn_call = NoCall

(* state.get_state(genesis) *)
GetState(genesis) ==
    /\ red.seq = 0
    /\ red' = [seq |-> 1, genesis |-> genesis, state |-> get_state(op_db, genesis)]
    /\ UNCHANGED <<node_db, op_db, edges_forward, last_timestamp, next_ulid, pool, ret,
                   n_fail, n_import, r2_node_db, r2_op_db, r2_edges, r2_last_timestamp,
                   r2_next_ulid, r2_ret, mirror, shared, clock, fn_call>>

SpecReduce == InitReduce /\ [][\E genesis \in RedGenesis : GetState(genesis)]_vars

(***************************************************************************)
(* crdt/crdt_state.rs on its own: a CrdtState over an empty store, fed     *)
(* through apply and apply_with_validation.                                *)
(***************************************************************************)
MaxValidateCalls == 3

(* a validation that would accept any non-empty log *)
validate_operation_any(ops, op) ==
    IF op.kind \in {"Update", "Delete", "Merge"}
    THEN load_operations(ops, op.genesis) # {}
    ELSE TRUE

validate_operation(ops, op) ==
    IF op.kind \in {"Update", "Delete", "Merge"}
    THEN \E o \in load_operations(ops, op.genesis) : o.kind = "Create"
    ELSE TRUE

(* the log afterwards and the error, "" for Ok *)
apply_with_validation(ops, op) ==
    IF validate_operation(ops, op)
    THEN [ops |-> SaveAll(ops, {op}), err |-> ""]
    ELSE [ops |-> ops, err |-> "Validation:MissingCreate"]

StateReturn(ops, status, err, op) ==
    /\ ret.seq < MaxValidateCalls
    /\ op_db' = ops
    /\ ret' = [NoRet EXCEPT !.seq = ret.seq + 1, !.status = status, !.err = err,
                            !.arg = op, !.op = op]
    /\ UNCHANGED <<node_db, edges_forward, last_timestamp, next_ulid, pool, n_fail,
                   n_import>>
    /\ Replica2Unchanged

(* state.apply(op) *)
Apply(op) == StateReturn(SaveAll(op_db, {op}), "applied", "", op)

(* state.apply_with_validation(op) *)
ApplyWithValidation(op) ==
    StateReturn(apply_with_validation(op_db, op).ops,
                IF apply_with_validation(op_db, op).err = "" THEN "ok" ELSE "err",
                apply_with_validation(op_db, op).err, op)

NextValidate ==
    \E op \in {OperationNew(g, k[1], k[2], TestAuthor, ret.seq + 1, t) :
                  k \in RedKinds, g \in RedGenesis, t \in 1..MaxRedTs} :
       \/ Apply(op)
       \/ ApplyWithValidation(op)

SpecValidate == Init /\ [][NextValidate]_vars

(***************************************************************************)
(* storage/shared_leveldb.rs on its own: one database, one batch slot, the *)
(* guard begin_batch hands out, and the two sub-stores writing through     *)
(* write_bytes.  An entry is a key of one of the two key spaces; its value *)
(* is determined by the key (nodes are keyed by CID, operations by id), so *)
(* the database and the batch are sets of entries.                         *)
(***************************************************************************)
MaxBatchCalls == 7
MaxBatchKeys == 2

NodeEntries == {<<"node", k>> : k \in 1..MaxBatchKeys}
OpEntries == {<<"op", k>> : k \in 1..MaxBatchKeys}

(* a begin_batch that would hand out a fresh batch whatever the slot holds *)
begin_batch_replacing(s) ==
    [s EXCEPT !.active_batch = Some({}), !.guard = TRUE, !.last = "begun",
              !.begun = @ + 1]

begin_batch(s) ==
    IF s.active_batch # None
    THEN [s EXCEPT !.last = "AlreadyActive"]
    ELSE [s EXCEPT !.active_batch = Some({}), !.guard = TRUE, !.last = "begun",
                   !.begun = @ + 1]

(* Some(s') when a batch is active and the closure ran on it, else None *)
with_active_batch(s, entry) ==
    IF s.active_batch = None
    THEN None
    ELSE Some([s EXCEPT !.active_batch = Some(@[1] \cup {entry}), !.last = "staged"])

(* LeveldbNodeStorage::write_bytes: into the batch, or else into the database *)
write_bytes(s, entry) ==
    IF with_active_batch(s, entry) = None
    THEN [s EXCEPT !.db = @ \cup {entry}, !.last = "written"]
    ELSE with_active_batch(s, entry)[1]

(* the operation store's write, which stages into the same batch *)
save_operation_bytes(s, entry) ==
    IF with_active_batch(s, entry) = None
    THEN [s EXCEPT !.db = @ \cup {entry}, !.last = "written"]
    ELSE with_active_batch(s, entry)[1]

(* LeveldbBatchGuard::commit: commit_batch takes the batch out of the slot *)
(* and writes it; when the write fails the guard is dropped uncommitted    *)
(* and its abort_batch finds the slot empty                                *)
(* a commit whose failed write would leave the batch in the slot *)
LeveldbBatchGuard_commit_keeping(s, fail) ==
    IF fail
    THEN [s EXCEPT !.guard = FALSE, !.last = "commit_err"]
    ELSE [s EXCEPT !.db = commit_batch(@, s.active_batch[1]), !.active_batch = None,
                   !.guard = FALSE, !.last = "committed"]

LeveldbBatchGuard_commit(s, fail) ==
    IF fail
    THEN [s EXCEPT !.active_batch = None, !.guard = FALSE, !.last = "commit_err"]
    ELSE [s EXCEPT !.db = commit_batch(@, s.active_batch[1]), !.active_batch = None,
                   !.guard = FALSE, !.last = "committed"]

(* Drop for LeveldbBatchGuard with committed = false *)
LeveldbBatchGuard_drop(s) ==
    [s EXCEPT !.db = abort_batch(@, s.active_batch[1]), !.active_batch = None,
              !.guard = FALSE, !.last = "dropped"]

RepoUnchanged ==
    UNCHANGED <<node_db, op_db, edges_forward, last_timestamp, next_ulid, pool, ret,
                n_fail, n_import, r2_node_db, r2_op_db, r2_edges, r2_last_timestamp,
                r2_next_ulid, r2_ret, mirror, red>>

BatchReturn(s) ==
    /\ shared.calls < MaxBatchCalls
    /\ shared' = [s EXCEPT !.calls = @ + 1]
    /\ UNCHANGED <<clock, fn_call>>
    /\ RepoUnchanged

(* a read of the node store: it leaves the database and the slot alone; *)
(* input is what was asked for and the slot at that moment              *)
BatchRead(name, input, output) ==
    /\ fn_call' = [seq |-> 1, name |-> name, input |-> input, output |-> output]
    /\ UNCHANGED <<shared, clock>>
    /\ RepoUnchanged

(* LeveldbNodeStorage::get: a lookup in the database *)
storage_get(s, entry) == IF entry \in s.db THEN Some(entry) ELSE None

(* a get_node_map that would also walk the entries staged in the batch *)
get_node_map_staged(s) ==
    {e \in s.db \cup (IF s.active_batch = None THEN {} ELSE s.active_batch[1]) :
        e[1] = "node"}

(* LeveldbNodeStorage::get_node_map: the database's entries under the   *)
(* node key space                                                       *)
get_node_map(s) == {e \in s.db : e[1] = "node"}

BeginBatch == BatchReturn(begin_batch(shared))

NodePut(entry) == BatchReturn(write_bytes(shared, entry))

OpSave(entry) == BatchReturn(save_operation_bytes(shared, entry))

GuardCommit(fail) == shared.guard /\ BatchReturn(LeveldbBatchGuard_commit(shared, fail))

GuardDrop == shared.guard /\ BatchReturn(LeveldbBatchGuard_drop(shared))

NextBatch ==
    \/ BeginBatch
    \/ \E entry \in NodeEntries : NodePut(entry)
    \/ \E entry \in OpEntries : OpSave(entry)
    \/ \E fail \in BOOLEAN : GuardCommit(fail)
    \/ GuardDrop
    \/ \E entry \in NodeEntries :
          BatchRead("get", <<entry, shared.active_batch>>, storage_get(shared, entry))
    \/ BatchRead("get_node_map", shared.active_batch, get_node_map(shared))

SpecBatch == Init /\ [][NextBatch]_vars

(***************************************************************************)
(* convergence/policies/lww.rs on its own: resolve applied to a list of    *)
(* ResolveInput values.                                                    *)
(***************************************************************************)
MaxLwwInputs == 3
MaxLwwTs == 3

FnReturn(name, input, output) ==
    /\ fn_call.seq = 0
    /\ fn_call' = [seq |-> 1, name |-> name, input |-> input, output |-> output]
    /\ UNCHANGED <<shared, clock>>
    /\ RepoUnchanged

(* policy.resolve(&inputs) on every list of up to MaxLwwInputs inputs *)
SpecLww ==
    Init /\ [][\E inputs \in UNION {[1..n -> {[cid |-> RawCid, payload |-> p, timestamp |-> t] :
                                                 p \in Payloads, t \in 1..MaxLwwTs}] :
                                      n \in 1..MaxLwwInputs} :
                  FnReturn("resolve", inputs, LwwResolve(inputs))]_vars

-----------------------------------------------------------------------------
(* ConflictResolver::create_merge_node on its own, called on a repository  *)
(* built by local commits: heads is any list of up to two known CIDs, the  *)
(* placeholder CID, which is never stored, among them.                     *)

MaxResolverCalls == 3

CreateMergeNode(heads, genesis, timestamp) ==
    FnReturn("create_merge_node",
             [heads |-> heads, genesis |-> genesis, timestamp |-> timestamp],
             create_merge_node(node_db, heads, genesis, timestamp))

NextResolver ==
    \/ \E in \in Inputs(node_db), wall \in Walls(last_timestamp) :
          fn_call.seq = 0 /\ Commit(in, MaxResolverCalls, wall)
    \/ \E heads \in UNION {[1..n -> KnownCids(node_db)] : n \in 0..2},
          genesis \in KnownCids(node_db), timestamp \in 1..MaxImportTs :
          CreateMergeNode(heads, genesis, timestamp)

SpecResolver == Init /\ [][NextResolver]_vars

-----------------------------------------------------------------------------
(* DagGraph::detect_cycle_cid on its own: any map from at most             *)
(* MaxCycleNodes nodes to lists of at most MaxCycleParents parents, the    *)
(* two HashMaps iterated in any order.                                     *)

MaxCycleNodes == 3
MaxCycleParents == 2

DetectCycle(node_map, key_order, map_order) ==
    FnReturn("detect_cycle_cid", node_map,
             DetectLoop(key_order, build_adjacency_list(node_map, map_order),
                        [visited |-> {}, rec_stack |-> {}, found |-> FALSE]).found)

SpecCycle ==
    Init /\ [][\E node_map \in UNION {[S -> UNION {[1..n -> 1..MaxCycleNodes] :
                                                       n \in 0..MaxCycleParents}] :
                                         S \in SUBSET (1..MaxCycleNodes)} :
                 \E map_order \in Perms(DOMAIN node_map) :
                    \E key_order \in Perms(DOMAIN build_adjacency_list(node_map, map_order)) :
                       DetectCycle(node_map, key_order, map_order)]_vars

(***************************************************************************)
(* crdt/timestamp.rs with concurrent callers: each caller is at one of the *)
(* loop's atomic accesses.  The wall clock is read anew at every           *)
(* current_timestamp_nanos() and may return any value, so it can stall or  *)
(* go backwards between two readings.                                      *)
(***************************************************************************)
ClockUnchanged ==
    /\ UNCHANGED <<shared, fn_call>>
    /\ RepoUnchanged

SetThread(t, th) == [clock EXCEPT !.threads[t] = th]

(* line 18: the call starts by reading the wall clock *)
ClockCall(t, wall) ==
    /\ clock.threads[t].pc = "idle"
    /\ clock.threads[t].calls < MaxClockCalls
    /\ clock' = SetThread(t, [pc |-> "load", ts |-> wall, last |-> 0,
                              calls |-> clock.threads[t].calls + 1])
    /\ ClockUnchanged

(* line 21, and lines 28-32 when the successor of last wraps to 0 *)
ClockLoad(t, wall) ==
    /\ clock.threads[t].pc = "load"
    /\ clock' = SetThread(t,
          IF clock.threads[t].ts <= clock.last /\ wrapping_add(clock.last, 1) = 0
          THEN [clock.threads[t] EXCEPT !.ts = wall]
          ELSE [clock.threads[t] EXCEPT !.pc = "cas", !.last = clock.last])
    /\ ClockUnchanged

(* the value the caller tries to install: lines 22-23 and 28, 33-36 *)
Candidate(th) == IF th.ts > th.last THEN th.ts ELSE wrapping_add(th.last, 1)

(* lines 23-26 and 33-41: return on success, read the clock again on failure *)
ClockCas(t, wall) ==
    /\ clock.threads[t].pc = "cas"
    /\ clock' =
          IF compare_exchange(clock.last, clock.threads[t].last,
                              Candidate(clock.threads[t])).ok
          THEN [clock EXCEPT
                  !.last = compare_exchange(clock.last, clock.threads[t].last,
                                            Candidate(clock.threads[t])).value,
                  !.returned = Append(@, Candidate(clock.threads[t])),
                  !.threads[t].pc = "idle"]
          ELSE [clock EXCEPT !.threads[t].pc = "load", !.threads[t].ts = wall]
    /\ ClockUnchanged

NextClock ==
    \E t \in 1..MaxThreads, wall \in 0..(2^ClockBits - 1) :
       \/ ClockCall(t, wall)
       \/ ClockLoad(t, wall)
       \/ ClockCas(t, wall)

SpecClock == Init /\ [][NextClock]_vars

(* every caller that has started keeps running: a thread in the loop takes *)
(* its next step                                                           *)
SpecClockLive ==
    /\ SpecClock
    /\ \A t \in 1..MaxThreads :
          WF_vars(\E wall \in 0..(2^ClockBits - 1) : ClockLoad(t, wall) \/ ClockCas(t, wall))

-----------------------------------------------------------------------------
(* Properties.  ret is the result of the last commit_operation call, and   *)
(* ret.arg the operation the caller passed.                                *)

(* this step is a commit_operation call *)
Called == ret'.seq # ret.seq

(* a non-import Update/Delete with empty parents succeeded on a family     *)
(* that had more than one head                                             *)
AutoMergeStep ==
    /\ Called
    /\ ret'.status = "ok"
    /\ ret'.arg.kind \in {"Update", "Delete"}
    /\ ret'.arg.parents = <<>>
    /\ ret'.arg.node_timestamp = None
    /\ Cardinality(find_heads(node_db, ret'.arg.genesis)) > 1

C2_SingleHeadAfterAutoMerge ==
    [][AutoMergeStep => find_heads(node_db', ret'.arg.genesis) = {ret'.cid[1]}]_vars

C2_Witness ==
    /\ ret.status = "ok" /\ ret.arg.kind = "Update" /\ ret.arg.parents = <<>>
    /\ ret.merge # None
    /\ find_heads(node_db, ret.arg.genesis) = {ret.cid[1]}

(* C3: such a commit creates exactly one merge node, whose parents are     *)
(* exactly the heads the family had; a Merge operation of author           *)
(* "auto-merge" with those parents enters the family's log together with   *)
(* the operation; and the operation's node has the merge node as its only  *)
(* parent.                                                                 *)
C3_AutoMergeShape ==
    [][AutoMergeStep =>
         \E m \in node_db' \ node_db :
            /\ content_id(m) # ret'.cid[1]
            /\ node_db' \ node_db = {m, GetNode(node_db', ret'.cid[1])}
            /\ Range(m.parents) = find_heads(node_db, ret'.arg.genesis)
            /\ Len(m.parents) = Cardinality(find_heads(node_db, ret'.arg.genesis))
            /\ GetNode(node_db', ret'.cid[1]).parents = <<content_id(m)>>
            /\ \E mo \in op_db' \ op_db :
                  /\ op_db' \ op_db = {mo, ret'.op}
                  /\ mo # ret'.op
                  /\ mo.kind = "Merge" /\ mo.author = AutoMergeAuthor
                  /\ mo.genesis = ret'.arg.genesis /\ mo.parents = m.parents]_vars

(* a Delete merged three heads *)
C3_Witness ==
    /\ ret.status = "ok" /\ ret.arg.kind = "Delete" /\ ret.merge # None
    /\ Len(GetNode(node_db, ret.merge[1]).parents) = 3
    /\ \E mo \in op_db : mo.author = AutoMergeAuthor /\ Len(mo.parents) = 3

(* C4: family closure.  Every stored parent of a stored non-genesis node N *)
(* belongs to the family N names: get_genesis(P) = N.genesis.              *)
C4_FamilyClosure ==
    \A n \in node_db :
        n.genesis # None =>
            \A p \in Range(n.parents) :
                HasNode(node_db, p) => get_genesis(node_db, p) = n.genesis

(* this step is the import of a Create *)
ImportCreateStep ==
    Called /\ ret'.arg.kind = "Create" /\ ret'.arg.node_timestamp # None

(* the CID stage_create computes for the Create that was passed *)
ComputedCid(arg) ==
    content_id(new_genesis(arg.payload, arg.node_timestamp[1], DefaultMetadata))

(* the import of a Create whose genesis is not the computed CID fails with *)
(* "CID mismatch" and persists nothing                                     *)
MismatchRejected ==
    ComputedCid(ret'.arg) # ret'.arg.genesis =>
        /\ ret'.status = "err" /\ ret'.err = "Internal:CidMismatch"
        /\ node_db' = node_db /\ op_db' = op_db

(* C5 as stated: the import of a Create succeeds only if the computed CID  *)
(* is its genesis G, then returns G with latest(G) = G; otherwise it fails *)
(* with "CID mismatch" and persists nothing.                               *)
C5_Original ==
    [][ImportCreateStep =>
         /\ ret'.status = "ok" =>
               /\ ComputedCid(ret'.arg) = ret'.arg.genesis
               /\ ret'.cid = Some(ret'.arg.genesis)
               /\ calculate_latest(node_db', ret'.arg.genesis) = {Some(ret'.arg.genesis)}
         /\ MismatchRejected]_vars

(* C5 amended: on success the commit returns G and G is stored;            *)
(* latest(G) = G when G is the only stored node of its family.             *)
C5_ImportCreate ==
    [][ImportCreateStep =>
         /\ ret'.status = "ok" =>
               /\ ComputedCid(ret'.arg) = ret'.arg.genesis
               /\ ret'.cid = Some(ret'.arg.genesis)
               /\ HasNode(node_db', ret'.arg.genesis)
               /\ get_nodes_by_genesis(node_db', ret'.arg.genesis) = {ret'.arg.genesis}
                     => calculate_latest(node_db', ret'.arg.genesis)
                           = {Some(ret'.arg.genesis)}
         /\ MismatchRejected]_vars

(* a Create was imported into a store that already held its genesis and a  *)
(* child of it                                                             *)
C5_Witness ==
    /\ ret.status = "ok" /\ ret.arg.kind = "Create" /\ ret.arg.node_timestamp # None
    /\ ret.cid = Some(ret.arg.genesis)
    /\ Cardinality(get_nodes_by_genesis(node_db, ret.arg.genesis)) > 1

(* C6: replica 2 imports what replica 1 committed, in the same order, and  *)
(* each import returns the CID of replica 1's node; once it has caught up, *)
(* its latest(genesis) is replica 1's.                                     *)
C6_ImportPreservesCid ==
    [][r2_ret'.seq # r2_ret.seq =>
         /\ r2_ret'.status = "ok"
         /\ r2_ret'.cid = Some(Head(mirror).cid)
         /\ mirror' = <<>> =>
               calculate_latest(r2_node_db', Head(mirror).genesis) = Head(mirror).latest]_vars

(* this step is a non-import Update/Delete that names parents *)
WithParentsStep ==
    /\ Called
    /\ ret'.arg.kind \in {"Update", "Delete"}
    /\ ret'.arg.node_timestamp = None
    /\ ret'.arg.parents # <<>>

(* the first parent of the list that is not a stored node of the family *)
FirstBadParent(db, genesis, parents) ==
    parents[CHOOSE i \in 1..Len(parents) :
               /\ get_genesis(db, parents[i]) # Some(genesis)
               /\ \A j \in 1..(i - 1) : get_genesis(db, parents[j]) = Some(genesis)]

(* C7 as stated: if some listed parent is a stored node of another family  *)
(* the commit fails with "does not belong" and persists nothing.           *)
C7_Original ==
    [][(WithParentsStep
          /\ \E p \in Range(ret'.arg.parents) :
                get_genesis(node_db, p) \notin {None, Some(ret'.arg.genesis)})
       => /\ ret'.status = "err" /\ ret'.err = "Internal:DoesNotBelong"
          /\ node_db' = node_db /\ op_db' = op_db]_vars

(* C7 amended: if some listed parent is not a stored node of the family    *)
(* the commit fails and persists nothing; the error is decided by the      *)
(* first such parent of the list: "does not belong" if it is stored,       *)
(* NodeNotFound if it is not.                                              *)
C7_BadParentRejected ==
    [][(WithParentsStep
          /\ \E p \in Range(ret'.arg.parents) :
                get_genesis(node_db, p) # Some(ret'.arg.genesis))
       => /\ ret'.status = "err"
          /\ ret'.err = IF HasNode(node_db, FirstBadParent(node_db, ret'.arg.genesis,
                                                          ret'.arg.parents))
                        THEN "Internal:DoesNotBelong" ELSE "Graph:NodeNotFound"
          /\ node_db' = node_db /\ op_db' = op_db
          /\ \A g \in KnownCids(node_db) : find_heads(node_db', g) = find_heads(node_db, g)]_vars

(* the list named a missing parent before a parent of another family *)
C7_Witness ==
    /\ ret.status = "err" /\ ret.err = "Graph:NodeNotFound"
    /\ ret.arg.kind = "Update" /\ ret.arg.node_timestamp = None
    /\ Len(ret.arg.parents) = 2
    /\ get_genesis(node_db, ret.arg.parents[2]) \notin {None, Some(ret.arg.genesis)}

(* C8: a Merge operation without node_timestamp is rejected before a batch *)
(* is opened or anything is staged: the stores and the forward-edge cache  *)
(* are unchanged.  A Merge operation enters the log only from auto-merge   *)
(* or from an import.                                                      *)
C8_ManualMergeRejected ==
    [][Called =>
         /\ (ret'.arg.kind = "Merge" /\ ret'.arg.node_timestamp = None) =>
               /\ ret'.status = "err" /\ ret'.err = "Internal:ManualMerge"
               /\ ~ret'.batch_opened /\ ret'.puts = 0 /\ ret'.saves = 0
               /\ node_db' = node_db /\ op_db' = op_db
               /\ edges_forward' = edges_forward
         /\ \A o \in op_db' \ op_db :
               o.kind = "Merge" => (o.author = AutoMergeAuthor \/ o.node_timestamp # None)]_vars

(* a manual Merge was rejected on a family with two heads *)
C8_Witness ==
    /\ ret.status = "err" /\ ret.err = "Internal:ManualMerge" /\ ~ret.batch_opened
    /\ Cardinality(find_heads(node_db, ret.arg.genesis)) = 2

C10_LinearChain ==
    [][(Called /\ ret'.status = "ok") =>
         /\ calculate_latest(node_db', ret'.op.genesis) = {ret'.cid}
         /\ ret'.arg.kind \in {"Update", "Delete"} =>
               /\ Cardinality(calculate_latest(node_db, ret'.arg.genesis)) = 1
               /\ \A l \in calculate_latest(node_db, ret'.arg.genesis) :
                     l # None /\ GetNode(node_db', ret'.cid[1]).parents = l]_vars

(* a Delete extended a chain of three nodes *)
C10_Witness ==
    /\ ret.status = "ok" /\ ret.arg.kind = "Delete"
    /\ Cardinality(get_nodes_by_genesis(node_db, ret.arg.genesis)) = 4
    /\ calculate_latest(node_db, ret.arg.genesis) = {ret.cid}

(* this step is a successful Delete *)
DeleteStep == Called /\ ret'.status = "ok" /\ ret'.arg.kind = "Delete"

(* C11: a successful Delete stores a child node whose payload is that of    *)
(* the operation of greatest timestamp among the non-Delete operations the *)
(* family's log held; the delete node is then latest(genesis), and when    *)
(* the commit made no auto-merge (operations created and committed in      *)
(* order on one line of history) get_state(genesis) is None.               *)
C11_DeleteCarriesLatestPayload ==
    [][DeleteStep =>
         /\ HasNode(node_db', ret'.cid[1])
         /\ GetNode(node_db', ret'.cid[1]).genesis = Some(ret'.arg.genesis)
         /\ GetNode(node_db', ret'.cid[1]).parents # <<>>
         /\ \E o \in op_db : o.genesis = ret'.arg.genesis /\ o.kind # "Delete"
         /\ \A o \in op_db :
               (/\ o.genesis = ret'.arg.genesis /\ o.kind # "Delete"
                /\ \A x \in op_db :
                      (x.genesis = ret'.arg.genesis /\ x.kind # "Delete")
                         => x.timestamp <= o.timestamp)
               => GetNode(node_db', ret'.cid[1]).payload = o.payload
         /\ calculate_latest(node_db', ret'.arg.genesis) = {ret'.cid}
         /\ ret'.merge = None => get_state(op_db', ret'.arg.genesis) = None]_vars

(* a Delete after Create "a", Update "b" and an earlier Delete carries "b"  *)
(* and leaves the state absent                                             *)
C11_Witness ==
    /\ ret.status = "ok" /\ ret.arg.kind = "Delete" /\ ret.merge = None
    /\ GetNode(node_db, ret.cid[1]).payload = "b"
    /\ Cardinality({o \in op_db : o.genesis = ret.arg.genesis /\ o.kind = "Delete"}) = 2
    /\ get_state(op_db, ret.arg.genesis) = None

(* C13: node invariant I1.  Every stored node has no genesis field exactly *)
(* when it has no parents, the nodes stored by imports included.           *)
C13_GenesisIffNoParents ==
    \A n \in node_db : (n.genesis = None) <=> (n.parents = <<>>)

(* the CIDs reachable from seen along the parent edges of the stored nodes *)
RECURSIVE AncestorCids(_, _)
AncestorCids(db, seen) ==
    LET next == seen \cup UNION {Range(n.parents) : n \in {m \in db : content_id(m) \in seen}}
    IN IF next = seen THEN seen ELSE AncestorCids(db, next)

(* C12: the stored DAG has no directed cycle along parent edges: no stored *)
(* node is among its own ancestors, whatever parents the imports named.    *)
C12_NoCycle ==
    \A n \in node_db : content_id(n) \notin AncestorCids(node_db, Range(n.parents))

(* an import attached a node to a stored node that itself has a stored     *)
(* parent, with a timestamp older than its parent's                        *)
C12_Witness ==
    /\ ret.status = "ok" /\ ret.arg.node_timestamp # None /\ Len(ret.arg.parents) = 1
    /\ HasNode(node_db, ret.arg.parents[1])
    /\ GetNode(node_db, ret.arg.parents[1]).timestamp > ret.arg.node_timestamp[1]
    /\ \E p \in Range(GetNode(node_db, ret.arg.parents[1]).parents) : HasNode(node_db, p)

(* this step is a successful commit *)
Committed == Called /\ ret'.status = "ok"

(* C14: a successful commit logs the operation and stores one node for it  *)
(* under the CID it returns: for a Create the genesis node whose CID is    *)
(* the genesis the operation is logged under, with the operation's         *)
(* payload; for an Update a node of the family with the operation's        *)
(* payload; for a Delete a node of the family with the inherited latest    *)
(* payload.  Besides that node only an auto-merge node is stored, and      *)
(* every logged Create/Update has a stored node of its family with its     *)
(* payload.                                                                *)
C14_LogAndDagAgree ==
    [][Committed =>
         /\ ret'.op \in op_db' \ op_db
         /\ ret'.op.id = ret'.arg.id /\ ret'.op.kind = ret'.arg.kind
         /\ ret'.op.payload = ret'.arg.payload
         /\ Cardinality({m \in node_db' : content_id(m) = ret'.cid[1]}) = 1
         /\ node_db' \ node_db \subseteq
               {GetNode(node_db', ret'.cid[1])}
                  \cup {m \in node_db' : ret'.merge = Some(content_id(m))}
         /\ ret'.op.kind = "Create" =>
               /\ GetNode(node_db', ret'.cid[1]).genesis = None
               /\ GetNode(node_db', ret'.cid[1]).payload = ret'.op.payload
               /\ ret'.op.genesis = ret'.cid[1]
         /\ ret'.op.kind = "Update" =>
               /\ GetNode(node_db', ret'.cid[1]).genesis = Some(ret'.op.genesis)
               /\ GetNode(node_db', ret'.cid[1]).payload = ret'.op.payload
         /\ ret'.op.kind = "Delete" =>
               /\ GetNode(node_db', ret'.cid[1]).genesis = Some(ret'.op.genesis)
               /\ \E o \in op_db :
                     /\ o.genesis = ret'.op.genesis /\ o.kind # "Delete"
                     /\ o.payload = GetNode(node_db', ret'.cid[1]).payload
                     /\ \A x \in op_db :
                           (x.genesis = ret'.op.genesis /\ x.kind # "Delete")
                              => x.timestamp <= o.timestamp
         /\ \A o \in op_db' :
               /\ o.kind = "Create" =>
                     \E m \in node_db' :
                        content_id(m) = o.genesis /\ m.payload = o.payload
               /\ o.kind = "Update" =>
                     \E m \in node_db' :
                        m.genesis = Some(o.genesis) /\ m.payload = o.payload]_vars

(* a Delete was imported after a local Create and an imported Update *)
C14_Witness ==
    /\ ret.status = "ok" /\ ret.arg.kind = "Delete" /\ ret.arg.node_timestamp # None
    /\ Cardinality(node_db) = 3 /\ Cardinality(op_db) = 3
    /\ \E o \in op_db : o.kind = "Create" /\ o.node_timestamp = None
    /\ \E o \in op_db : o.kind = "Update" /\ o.node_timestamp # None

(* this step is a call on the shared database *)
BatchCalled == shared'.calls = shared.calls + 1

(* C15: a begin_batch while a batch is active returns AlreadyActive and    *)
(* leaves the batch, its staged writes and the database as they are; a     *)
(* begin_batch with no active batch succeeds with an empty batch, and a    *)
(* guard that was committed or dropped leaves no active batch behind.      *)
C15_OneBatchAtATime ==
    [][BatchCalled =>
         /\ (shared'.last \in {"AlreadyActive", "begun"} /\ shared.active_batch # None) =>
               /\ shared'.last = "AlreadyActive"
               /\ shared'.active_batch = shared.active_batch
               /\ shared'.db = shared.db /\ shared'.guard = shared.guard
         /\ (shared'.last \in {"AlreadyActive", "begun"} /\ shared.active_batch = None) =>
               /\ shared'.last = "begun"
               /\ shared'.active_batch = Some({}) /\ shared'.guard
         /\ shared'.last \in {"committed", "commit_err", "dropped"} =>
               shared'.active_batch = None /\ ~shared'.guard
         /\ shared'.guard <=> shared'.active_batch # None]_vars

(* the second batch, with writes of both stores staged, has just refused a *)
(* nested begin_batch                                                      *)
C15_Witness ==
    /\ shared.last = "AlreadyActive" /\ shared.begun = 2
    /\ shared.active_batch # None
    /\ \E n \in NodeEntries, o \in OpEntries : {n, o} \subseteq shared.active_batch[1]

ClockReturned == Len(clock'.returned) = Len(clock.returned) + 1

(* C17: the shared counter never decreases; a returning call returns a     *)
(* value greater than the counter it replaces, which is its wall reading   *)
(* when that is ahead of the counter and the counter plus one otherwise,   *)
(* and leaves that value in the counter; the values returned so far are    *)
(* strictly increasing in the order of their exchanges, hence pairwise     *)
(* distinct.                                                               *)
C17_StrictlyMonotonic ==
    [][/\ clock'.last >= clock.last
       /\ ClockReturned =>
            /\ clock'.last = clock'.returned[Len(clock'.returned)]
            /\ clock'.last > clock.last
            /\ \E t \in 1..MaxThreads :
                  /\ clock.threads[t].pc = "cas" /\ clock'.threads[t].pc = "idle"
                  /\ clock'.last = IF clock.threads[t].ts > clock.last
                                   THEN clock.threads[t].ts
                                   ELSE clock.last + 1
       /\ \A i, j \in 1..Len(clock'.returned) :
             i < j => clock'.returned[i] < clock'.returned[j]]_vars

(* both callers have returned twice, the last value being the counter plus *)
(* one under a wall reading behind the counter                             *)
C17_Witness ==
    /\ Len(clock.returned) = 4
    /\ \A t \in 1..MaxThreads :
          clock.threads[t].pc = "idle" /\ clock.threads[t].calls = MaxClockCalls
    /\ clock.returned[4] = clock.returned[3] + 1
    /\ \E t \in 1..MaxThreads :
          clock.threads[t].ts < clock.returned[3] /\ clock.threads[t].last = clock.returned[3]

(* C18: for every CID, calculate_latest has one possible result; it is     *)
(* None exactly when no stored node belongs to the family, and otherwise a *)
(* leaf of the family whose timestamp is maximal among the leaves.         *)
C18_LatestIsFixed ==
    \A g \in KnownCids(node_db) :
       /\ Cardinality(calculate_latest(node_db, g)) = 1
       /\ (None \in calculate_latest(node_db, g)) <=> (get_nodes_by_genesis(node_db, g) = {})
       /\ \A r \in calculate_latest(node_db, g) \ {None} :
             /\ r[1] \in get_nodes_by_genesis(node_db, g)
             /\ \A c \in get_nodes_by_genesis(node_db, g) :
                   r[1] \notin Range(GetNode(node_db, c).parents)
             /\ \A l \in find_heads(node_db, g) :
                   GetNode(node_db, l).timestamp <= GetNode(node_db, r[1]).timestamp

(* C19: every path linear_history(genesis) can return starts at genesis,   *)
(* steps from each element to one of its children in the family, and ends  *)
(* at a node latest(genesis) can return.                                   *)
C19_LinearHistoryEndsAtLatest ==
    \A g \in Genesises(node_db) :
       \A p \in linear_history(node_db, g) :
          /\ p # <<>> /\ p[1] = g
          /\ \A i \in 1..(Len(p) - 1) :
                /\ HasNode(node_db, p[i + 1])
                /\ p[i] \in Range(GetNode(node_db, p[i + 1]).parents)
          /\ Some(p[Len(p)]) \in calculate_latest(node_db, g)

(* C20: every path linear_history(genesis) can return continues, at each   *)
(* node that has children in the family, with a child than which no other  *)
(* child is a merge node when it is not, or is later among the same kind;  *)
(* it holds no node twice and its last node has no children.               *)
C20_LinearHistoryGreedy ==
    \A g \in Genesises(node_db) :
       \A p \in linear_history(node_db, g) :
          /\ p # <<>>
          /\ \A i \in 1..(Len(p) - 1) :
                /\ p[i + 1] \in {n \in StoredCids(node_db) :
                                   /\ n = g \/ GetNode(node_db, n).genesis = Some(g)
                                   /\ p[i] \in Range(GetNode(node_db, n).parents)}
                /\ \A c \in StoredCids(node_db) :
                      (/\ c = g \/ GetNode(node_db, c).genesis = Some(g)
                       /\ p[i] \in Range(GetNode(node_db, c).parents))
                      => /\ Len(GetNode(node_db, c).parents) > 1
                              => Len(GetNode(node_db, p[i + 1]).parents) > 1
                         /\ (Len(GetNode(node_db, c).parents) > 1)
                               = (Len(GetNode(node_db, p[i + 1]).parents) > 1)
                              => GetNode(node_db, c).timestamp
                                    <= GetNode(node_db, p[i + 1]).timestamp
          /\ \A i, j \in 1..Len(p) : i # j => p[i] # p[j]
          /\ ~\E c \in StoredCids(node_db) :
                /\ c = g \/ GetNode(node_db, c).genesis = Some(g)
                /\ p[Len(p)] \in Range(GetNode(node_db, c).parents)

(* the walk passed a node with a merge child and a later single-parent     *)
(* child and went on with the merge child                                  *)
C20_Witness ==
    \E g \in Genesises(node_db) :
       \E p \in linear_history(node_db, g) :
          \E i \in 1..(Len(p) - 1) :
             /\ Len(GetNode(node_db, p[i + 1]).parents) > 1
             /\ \E c \in children_of(node_db, g, p[i]) :
                   /\ Len(GetNode(node_db, c).parents) = 1
                   /\ GetNode(node_db, c).timestamp > GetNode(node_db, p[i + 1]).timestamp

(* the stored nodes of the family of g: g itself and the nodes whose       *)
(* genesis field is g                                                      *)
FamilyOf(g) ==
    {c \in StoredCids(node_db) : c = g \/ GetNode(node_db, c).genesis = Some(g)}

(* C21: in branching_history(genesis) every family node is a key, c is in  *)
(* the list of p exactly when c is a family node that lists p as a parent, *)
(* and every list is strictly ascending in the CID order.                  *)
C21_BranchingHistoryAdjacency ==
    \A g \in KnownCids(node_db) :
       /\ FamilyOf(g) \subseteq DOMAIN branching_history(node_db, g)
       /\ \A p \in DOMAIN branching_history(node_db, g) :
             /\ \A c \in KnownCids(node_db) \cup Range(branching_history(node_db, g)[p]) :
                   (c \in Range(branching_history(node_db, g)[p]))
                      <=> (c \in FamilyOf(g) /\ p \in Range(GetNode(node_db, c).parents))
             /\ \A i, j \in 1..Len(branching_history(node_db, g)[p]) :
                   i < j => cid_cmp(branching_history(node_db, g)[p][i],
                                    branching_history(node_db, g)[p][j]) < 0

(* a genesis node with two children, the three of them the keys *)
C21_Witness ==
    \E g \in Genesises(node_db) :
       /\ Len(branching_history(node_db, g)[g]) = 2
       /\ Cardinality(DOMAIN branching_history(node_db, g)) = 3

(* this step is a call of apply_with_validation *)
Validated == Called /\ ret'.status \in {"ok", "err"}

(* the operation needs a Create in the log of its genesis and there is none *)
MissingCreate(ops, op) ==
    /\ op.kind \in {"Update", "Delete", "Merge"}
    /\ ~\E o \in ops : o.genesis = op.genesis /\ o.kind = "Create"

(* C22: validate_operation is false exactly for an Update, Delete or Merge *)
(* whose genesis has no Create in the log; apply_with_validation then      *)
(* returns Validation(MissingCreate) and leaves the log as it is, and      *)
(* otherwise returns Ok with the operation added to the log.               *)
C22_ValidationGatesApply ==
    [][Validated =>
         /\ validate_operation(op_db, ret'.arg) = ~MissingCreate(op_db, ret'.arg)
         /\ MissingCreate(op_db, ret'.arg) =>
               /\ ret'.status = "err" /\ ret'.err = "Validation:MissingCreate"
               /\ op_db' = op_db
         /\ ~MissingCreate(op_db, ret'.arg) =>
               /\ ret'.status = "ok" /\ ret'.err = ""
               /\ ret'.arg \in op_db'
               /\ op_db' = op_db \cup {ret'.arg}]_vars

(* an Update was refused for a genesis whose log holds an Update but no    *)
(* Create, while the other genesis has its Create                          *)
C22_Witness ==
    /\ ret.status = "err" /\ ret.arg.kind = "Update"
    /\ \E o \in op_db : o.genesis = ret.arg.genesis /\ o.kind = "Update"
    /\ \E o \in op_db : o.genesis # ret.arg.genesis /\ o.kind = "Create"

(* C23: resolve returns the payload of an input of highest timestamp, and  *)
(* no later input of the list has that timestamp unless it is the one      *)
(* whose payload is returned: the result is the payload of the last input  *)
(* of highest timestamp.                                                   *)
C23_LwwLastOfHighest ==
    fn_call.name = "resolve" =>
       \E i \in 1..Len(fn_call.input) :
          /\ fn_call.output = fn_call.input[i].payload
          /\ \A j \in 1..Len(fn_call.input) :
                fn_call.input[j].timestamp <= fn_call.input[i].timestamp
          /\ \A j \in 1..Len(fn_call.input) :
                fn_call.input[j].timestamp = fn_call.input[i].timestamp => j <= i

(* three inputs, the first two sharing the highest timestamp with          *)
(* different payloads; the second one's payload is returned                *)
C23_Witness ==
    /\ fn_call.name = "resolve" /\ Len(fn_call.input) = 3
    /\ fn_call.input[1].timestamp = fn_call.input[2].timestamp
    /\ fn_call.input[3].timestamp < fn_call.input[2].timestamp
    /\ fn_call.input[1].payload # fn_call.input[2].payload
    /\ fn_call.output = fn_call.input[2].payload

(* the families known before the step: stored genesis nodes and the        *)
(* genesis values of logged operations                                     *)
FamiliesBefore == Genesises(node_db) \cup {o.genesis : o \in op_db}

(* C24: a commit, successful or failed, leaves every family other than the *)
(* one it is logged under as it was: the family's nodes, its heads, what   *)
(* latest can return, its operation log and its state.                     *)
C24_FamilyIsolation ==
    [][Called =>
         \A g \in FamiliesBefore \ {ret'.op.genesis} :
            /\ {n \in node_db' : content_id(n) = g \/ n.genesis = Some(g)}
                  = {n \in node_db : content_id(n) = g \/ n.genesis = Some(g)}
            /\ find_heads(node_db', g) = find_heads(node_db, g)
            /\ calculate_latest(node_db', g) = calculate_latest(node_db, g)
            /\ {o \in op_db' : o.genesis = g} = {o \in op_db : o.genesis = g}
            /\ get_state(op_db', g) = get_state(op_db, g)]_vars

(* a commit with an auto-merge succeeded on one family while another       *)
(* family is stored                                                        *)
C24_Witness ==
    /\ ret.status = "ok" /\ ret.merge # None
    /\ \E g \in Genesises(node_db) \ {ret.op.genesis} :
          /\ get_state(op_db, g) = Some("a")
          /\ calculate_latest(node_db, g) = {Some(g)}

(* a non-import Update/Delete naming parents, all of them stored nodes of  *)
(* the operation's family, succeeded                                       *)
ExplicitParentsStep ==
    /\ Committed
    /\ ret'.arg.kind \in {"Update", "Delete"}
    /\ ret'.arg.node_timestamp = None
    /\ ret'.arg.parents # <<>>
    /\ \A p \in Range(ret'.arg.parents) :
          /\ HasNode(node_db, p)
          /\ p = ret'.arg.genesis \/ GetNode(node_db, p).genesis = Some(ret'.arg.genesis)

(* C25: such a commit runs no auto-merge: it stores one node, whose        *)
(* parents are the ones named, logs the one operation and no Merge, and    *)
(* the family's heads afterwards are the heads before without the named    *)
(* parents, plus the new node; so two commits naming the same parent leave *)
(* both their nodes heads.                                                 *)
C25_ExplicitParentsNoMerge ==
    [][ExplicitParentsStep =>
         /\ ret'.merge = None
         /\ GetNode(node_db', ret'.cid[1]).parents = ret'.arg.parents
         /\ node_db' = node_db \cup {GetNode(node_db', ret'.cid[1])}
         /\ op_db' = op_db \cup {ret'.op}
         /\ ret'.op.kind = ret'.arg.kind
         /\ find_heads(node_db', ret'.arg.genesis)
               = (find_heads(node_db, ret'.arg.genesis) \ Range(ret'.arg.parents))
                    \cup {ret'.cid[1]}]_vars

(* the second of two updates naming the genesis node as parent was         *)
(* committed: both are heads                                               *)
C25_Witness ==
    /\ ret.status = "ok" /\ ret.arg.kind = "Update" /\ ret.arg.node_timestamp = None
    /\ ret.arg.parents = <<ret.arg.genesis>>
    /\ Cardinality(find_heads(node_db, ret.arg.genesis)) = 2
    /\ \A h \in find_heads(node_db, ret.arg.genesis) :
          GetNode(node_db, h).parents = <<ret.arg.genesis>>
    /\ ~\E o \in op_db : o.kind = "Merge"

(* an Update or Merge with node_timestamp set was committed while neither  *)
(* its genesis node nor any of its parents was stored                      *)
ForeignImportStep ==
    /\ Called
    /\ ret'.arg.node_timestamp # None
    /\ ret'.arg.kind \in {"Update", "Merge"}
    /\ ~HasNode(node_db, ret'.arg.genesis)
    /\ \A p \in Range(ret'.arg.parents) : ~HasNode(node_db, p)

(* C26: such a commit succeeds; its node has the parents the caller        *)
(* supplied, the timestamp supplied and the default metadata; no           *)
(* auto-merge runs and the operation is logged as supplied.                *)
C26_ImportSkipsParentChecks ==
    [][ForeignImportStep =>
         /\ ret'.status = "ok"
         /\ ret'.merge = None
         /\ GetNode(node_db', ret'.cid[1]).parents = ret'.arg.parents
         /\ GetNode(node_db', ret'.cid[1]).metadata = DefaultMetadata
         /\ GetNode(node_db', ret'.cid[1]).timestamp = ret'.arg.node_timestamp[1]
         /\ GetNode(node_db', ret'.cid[1]).genesis = Some(ret'.arg.genesis)
         /\ node_db' \subseteq node_db \cup {GetNode(node_db', ret'.cid[1])}
         /\ op_db' = op_db \cup {ret'.arg}]_vars

(* the CIDs the forward-edge cache knows: its keys and the children listed *)
CacheCids(cache) ==
    DOMAIN cache \cup UNION {Range(cache[k]) : k \in DOMAIN cache}

(* a commit returned an error after it had staged at least one node *)
FailedAfterStaging ==
    /\ Called
    /\ ret'.status = "err"
    /\ ret'.puts >= 1

(* C27: when a commit fails after nodes were staged, the forward-edge      *)
(* cache holds no entry for a node of the failed commit: every CID the     *)
(* cache knows afterwards is a stored node or was known before the call.   *)
C27_FailedCommitUnregistersCache ==
    [][FailedAfterStaging =>
         \A c \in CacheCids(edges_forward') :
             HasNode(node_db', c) \/ c \in CacheCids(edges_forward)]_vars

(* a non-import Update was committed *)
LocalUpdateStep ==
    /\ Committed
    /\ ret'.arg.kind = "Update"
    /\ ret'.arg.node_timestamp = None

(* C28: after a non-import Update(p) is committed, get_state of its        *)
(* family returns p, with or without an auto-merge in the commit; it is    *)
(* the payload of the node latest(genesis).                                *)
C28_UpdateIsState ==
    [][LocalUpdateStep =>
         /\ get_state(op_db', ret'.arg.genesis) = Some(ret'.arg.payload)
         /\ \A l \in calculate_latest(node_db', ret'.arg.genesis) :
               l # None /\ get_state(op_db', ret'.arg.genesis)
                              = Some(GetNode(node_db', l[1]).payload)]_vars

(* a non-import Update or Delete with empty parents was committed for a    *)
(* genesis no stored node belongs to                                       *)
NoHeadStep ==
    /\ Called
    /\ ret'.arg.kind \in {"Update", "Delete"}
    /\ ret'.arg.node_timestamp = None
    /\ ret'.arg.parents = <<>>
    /\ get_nodes_by_genesis(node_db, ret'.arg.genesis) = {}

(* C29: such a commit fails with Internal("No head available ..."); the    *)
(* stores are left as they were, with no operation and no node of that     *)
(* genesis.                                                                *)
C29_NoHeadFails ==
    [][NoHeadStep =>
         /\ ret'.status = "err"
         /\ ret'.err = "Internal:NoHeadAvailable"
         /\ node_db' = node_db /\ op_db' = op_db
         /\ load_operations(op_db', ret'.arg.genesis) = {}
         /\ get_nodes_by_genesis(node_db', ret'.arg.genesis) = {}]_vars

(* a Delete for a genesis without nodes was refused while another family   *)
(* is stored                                                               *)
C29_Witness ==
    /\ ret.status = "err" /\ ret.err = "Internal:NoHeadAvailable"
    /\ ret.arg.kind = "Delete" /\ ret.arg.parents = <<>>
    /\ ret.arg.node_timestamp = None
    /\ get_nodes_by_genesis(node_db, ret.arg.genesis) = {}
    /\ node_db # {}

(* a Delete was committed for a genesis whose node is stored while the log *)
(* of that genesis holds no operation with a payload                       *)
DanglingDeleteStep ==
    /\ Called
    /\ ret'.arg.kind = "Delete"
    /\ HasNode(node_db, ret'.arg.genesis)
    /\ WithPayload(op_db, ret'.arg.genesis) = {}

(* the parent checks of a local commit let the Delete through: it is an    *)
(* import, or it names no parent, or every parent it names is a stored     *)
(* node of the genesis                                                     *)
ParentsPass ==
    \/ ret'.arg.node_timestamp # None
    \/ \A p \in Range(ret'.arg.parents) :
          get_genesis(node_db, p) = Some(ret'.arg.genesis)

(* C30 as stated: every such Delete fails with Internal("content must      *)
(* exist ..."), is not stored, and leaves the log and the node as they     *)
(* were.                                                                   *)
C30_DeleteWithoutContent ==
    [][DanglingDeleteStep =>
         /\ ret'.status = "err"
         /\ ret'.err = "Internal:ContentMustExist"
         /\ op_db' = op_db /\ node_db' = node_db
         /\ load_operations(op_db', ret'.arg.genesis) = load_operations(op_db, ret'.arg.genesis)
         /\ HasNode(node_db', ret'.arg.genesis)]_vars

(* C30 amended: every such Delete fails and leaves the log and the nodes   *)
(* as they were; the error is Internal("content must exist ...") when the  *)
(* Delete passes the parent checks, and the error of the parent check      *)
(* otherwise.                                                              *)
C30_DeleteWithoutContentAmended ==
    [][DanglingDeleteStep =>
         /\ ret'.status = "err"
         /\ ParentsPass => ret'.err = "Internal:ContentMustExist"
         /\ ~ParentsPass => ret'.err \in {"Internal:DoesNotBelong", "Graph:NodeNotFound"}
         /\ op_db' = op_db /\ node_db' = node_db
         /\ WithPayload(op_db', ret'.arg.genesis) = {}
         /\ HasNode(node_db', ret'.arg.genesis)]_vars

(* a Delete with empty parents for a genesis node put into the DAG with    *)
(* no operation was refused for its missing content                        *)
C30_Witness ==
    /\ ret.status = "err" /\ ret.err = "Internal:ContentMustExist"
    /\ ret.arg.kind = "Delete" /\ ret.arg.parents = <<>>
    /\ ret.arg.node_timestamp = None
    /\ HasNode(node_db, ret.arg.genesis)
    /\ GetNode(node_db, ret.arg.genesis).genesis = None
    /\ load_operations(op_db, ret.arg.genesis) = {}

(* the errors of kind Validation: CrdtError::Validation wraps a             *)
(* ValidationError, which is MissingCreate or DuplicateOp                   *)
ValidationKind == {"Validation:MissingCreate", "Validation:DuplicateOp"}

(* C31: a commit of a Merge operation without node_timestamp returns an    *)
(* error of kind Validation.                                               *)
C31_ManualMergeIsValidation ==
    [][(Called /\ ret'.arg.kind = "Merge" /\ ret'.arg.node_timestamp = None) =>
         (ret'.status = "err" /\ ret'.err \in ValidationKind)]_vars

(* C32: commit_operation holds the batch guard from begin_shared_batch to  *)
(* its return.  When the guard ends, by a commit that succeeds, by a       *)
(* commit that fails or by the drop of an early return, no batch is active *)
(* on the shared store, and a begin_batch made while no guard is alive     *)
(* succeeds.                                                               *)
C32_NoBatchLeftActive ==
    [][BatchCalled =>
         /\ (shared.guard /\ ~shared'.guard) => shared'.active_batch = None
         /\ ~shared'.guard => shared'.active_batch = None
         /\ (~shared.guard /\ shared'.last \in {"begun", "AlreadyActive"}) =>
               (shared'.last = "begun" /\ shared'.guard)]_vars

(* a second transaction has just failed at its batch commit, with writes   *)
(* made before, and no batch is left                                       *)
C32_Witness ==
    /\ shared.last = "commit_err" /\ shared.begun = 2
    /\ ~shared.guard /\ shared.active_batch = None
    /\ shared.db # {}

(* C33: a call running while the counter holds the greatest value, whose   *)
(* successor wraps to 0, returns in the end, and no call ever returns 0.   *)
C33_WrapFallsBackAndReturns ==
    /\ [](\A i \in 1..Len(clock.returned) : clock.returned[i] # 0)
    /\ \A t \in 1..MaxThreads :
          (clock.threads[t].pc # "idle" /\ clock.last = 2^ClockBits - 1)
             ~> (clock.threads[t].pc = "idle")

(* the nodes reached from seen along the edges parent -> child of node_map *)
RECURSIVE Descendants(_, _)
Descendants(node_map, seen) ==
    IF {c \in DOMAIN node_map : Range(node_map[c]) \cap seen # {}} \subseteq seen
    THEN seen
    ELSE Descendants(node_map, seen \cup {c \in DOMAIN node_map :
                                             Range(node_map[c]) \cap seen # {}})

(* some node is reached from one of its own children: a directed cycle *)
HasDirectedCycle(node_map) ==
    \E n \in DOMAIN node_map :
        n \in Descendants(node_map, {c \in DOMAIN node_map : n \in Range(node_map[c])})

(* C34: detect_cycle_cid(node_map) is true exactly when the graph with an  *)
(* edge parent -> child for every listed parent has a directed cycle,      *)
(* whatever the iteration order of the maps.                               *)
C34_DetectCycleExact ==
    fn_call.name = "detect_cycle_cid" =>
       /\ fn_call.output = HasDirectedCycle(fn_call.input)
       /\ fn_call.output = detect_cycle_cid(fn_call.input)

(* a diamond: two paths from node 1 to node 3 and no cycle *)
C34_Witness ==
    /\ fn_call.name = "detect_cycle_cid"
    /\ DOMAIN fn_call.input = {1, 2, 3}
    /\ fn_call.input[1] = <<>> /\ fn_call.input[2] = <<1>>
    /\ fn_call.input[3] = <<1, 2>>
    /\ fn_call.output = FALSE

(* a cycle through three nodes is found *)
C34_WitnessCycle ==
    /\ fn_call.name = "detect_cycle_cid"
    /\ DOMAIN fn_call.input = {1, 2, 3}
    /\ fn_call.input[1] = <<3>> /\ fn_call.input[2] = <<1>>
    /\ fn_call.input[3] = <<2>>
    /\ fn_call.output = TRUE

(* create_merge_node returns in this step *)
MergeNodeCreated == fn_call'.seq # fn_call.seq /\ fn_call'.name = "create_merge_node"

(* C35: create_merge_node fails with an Internal error when heads is empty *)
(* or a head is not stored; otherwise it returns a child node with the     *)
(* heads as parents in their order, the genesis and timestamp given, the   *)
(* payload the policy picks from the heads' (cid, payload, timestamp) in   *)
(* that order (LWW: the last head of greatest timestamp) and the metadata  *)
(* of the first head.  Nothing is stored in either case.                   *)
C35_CreateMergeNode ==
    [][MergeNodeCreated =>
         /\ node_db' = node_db /\ op_db' = op_db /\ edges_forward' = edges_forward
         /\ fn_call'.input.heads = <<>> =>
               fn_call'.output = [err |-> "Internal:NoHeads", node |-> None]
         /\ (\E h \in Range(fn_call'.input.heads) : ~HasNode(node_db, h)) =>
               fn_call'.output = [err |-> "Internal:HeadNotFound", node |-> None]
         /\ (/\ fn_call'.input.heads # <<>>
             /\ \A h \in Range(fn_call'.input.heads) : HasNode(node_db, h)) =>
               /\ fn_call'.output.err = ""
               /\ fn_call'.output.node[1].parents = fn_call'.input.heads
               /\ fn_call'.output.node[1].genesis = Some(fn_call'.input.genesis)
               /\ fn_call'.output.node[1].timestamp = fn_call'.input.timestamp
               /\ fn_call'.output.node[1].metadata
                     = GetNode(node_db, fn_call'.input.heads[1]).metadata
               /\ \E i \in 1..Len(fn_call'.input.heads) :
                     /\ fn_call'.output.node[1].payload
                           = GetNode(node_db, fn_call'.input.heads[i]).payload
                     /\ \A j \in 1..Len(fn_call'.input.heads) :
                           /\ GetNode(node_db, fn_call'.input.heads[j]).timestamp
                                 <= GetNode(node_db, fn_call'.input.heads[i]).timestamp
                           /\ GetNode(node_db, fn_call'.input.heads[j]).timestamp
                                 = GetNode(node_db, fn_call'.input.heads[i]).timestamp
                                => j <= i]_vars

(* two stored heads with different payloads were merged: the payload of    *)
(* the later one, the parents in the order given, the earlier one first    *)
C35_Witness ==
    /\ fn_call.name = "create_merge_node" /\ fn_call.output.err = ""
    /\ Len(fn_call.input.heads) = 2
    /\ find_heads(node_db, fn_call.input.genesis) = Range(fn_call.input.heads)
    /\ GetNode(node_db, fn_call.input.heads[1]).timestamp
          > GetNode(node_db, fn_call.input.heads[2]).timestamp
    /\ GetNode(node_db, fn_call.input.heads[1]).payload
          # GetNode(node_db, fn_call.input.heads[2]).payload
    /\ fn_call.output.node[1].payload = GetNode(node_db, fn_call.input.heads[1]).payload
    /\ fn_call.output.node[1].parents = fn_call.input.heads

(* what a commit of the empty-parent Update(payload) for genesis returns   *)
(* when find_heads lists the heads in the order given                      *)
UpdateOutcome(payload, genesis, heads, wall) ==
    commit_operation(node_db, op_db, edges_forward,
                     MakeOperation(Input("Update", payload, genesis, <<>>),
                                   next_ulid, last_timestamp, wall).timestamp,
                     next_ulid + 1,
                     MakeOperation(Input("Update", payload, genesis, <<>>),
                                   next_ulid, last_timestamp, wall),
                     heads, <<"none", 0>>, wall)

(* C36: in every state, the commit of one empty-parent Update with one     *)
(* reading of the clock has one outcome whatever the order in which the    *)
(* stored nodes are enumerated: the same merge node (payload, parents,     *)
(* CID) and the same returned CID.                                         *)
C36_AutoMergeDeterministic ==
    \A payload \in Payloads, genesis \in Genesises(node_db), wall \in Walls(last_timestamp) :
       \A h1, h2 \in Perms(find_heads(node_db, genesis)) :
          /\ UpdateOutcome(payload, genesis, h1, wall).merge
                = UpdateOutcome(payload, genesis, h2, wall).merge
          /\ UpdateOutcome(payload, genesis, h1, wall).cid
                = UpdateOutcome(payload, genesis, h2, wall).cid

(* C37: a node written while a batch is active is staged and the reads of  *)
(* the node store (get, get_node_map) return after the write what they     *)
(* returned before it; a read made while a batch is active returns the     *)
(* database's content and nothing that is only staged; the guard's commit  *)
(* makes the staged nodes visible.                                         *)
C37_StagedInvisibleUntilCommit ==
    [][/\ (BatchCalled /\ shared.active_batch # None /\ shared'.last = "staged") =>
             /\ get_node_map(shared') = get_node_map(shared)
             /\ \A e \in NodeEntries : storage_get(shared', e) = storage_get(shared, e)
       /\ (BatchCalled /\ shared'.last = "committed") =>
             get_node_map(shared')
               = get_node_map(shared) \cup (shared.active_batch[1] \cap NodeEntries)
       /\ (fn_call' # fn_call /\ fn_call'.name = "get_node_map") =>
             /\ fn_call'.output = shared.db \cap NodeEntries
             /\ shared.active_batch # None =>
                   fn_call'.output \cap (shared.active_batch[1] \ shared.db) = {}
       /\ (fn_call' # fn_call /\ fn_call'.name = "get") =>
             (fn_call'.output # None) = (fn_call'.input[1] \in shared.db)]_vars

(* a batch holds two staged nodes, the database none of them, and          *)
(* get_node_map, called with that batch active, returned no node           *)
C37_Witness ==
    /\ shared.active_batch = Some(NodeEntries)
    /\ shared.db \cap NodeEntries = {}
    /\ fn_call.seq = 1 /\ fn_call.name = "get_node_map"
    /\ fn_call.input = shared.active_batch
    /\ fn_call.output = {}

(* the number of heads of a family *)
HeadCount(db, genesis) == Cardinality(find_heads(db, genesis))

(* C38: a successful non-import commit with empty parents on a family that *)
(* had at most one head leaves the family with exactly one head, so a      *)
(* family built by such commits only has one head after each of them; a    *)
(* family's head count passes from at most one to more than one only in a  *)
(* step that is a commit with explicit parents or an import.               *)
C38_OneHeadUnlessBranched ==
    [][/\ (/\ Committed
            /\ ret'.arg.node_timestamp = None
            /\ ret'.arg.parents = <<>>
            /\ HeadCount(node_db, ret'.op.genesis) <= 1) =>
             HeadCount(node_db', ret'.op.genesis) = 1
       /\ \A g \in Genesises(node_db') :
             (HeadCount(node_db', g) > 1 /\ HeadCount(node_db, g) <= 1) =>
                /\ Called
                /\ ret'.arg.parents # <<>> \/ ret'.arg.node_timestamp # None]_vars

(* an empty-parent Update extended a family of three nodes, each with one  *)
(* child at most, and the family has one head: the node returned           *)
C38_Witness ==
    /\ ret.status = "ok" /\ ret.arg.kind = "Update"
    /\ ret.arg.parents = <<>> /\ ret.arg.node_timestamp = None
    /\ Cardinality(get_nodes_by_genesis(node_db, ret.arg.genesis)) = 3
    /\ \A n \in node_db : Len(n.parents) <= 1
    /\ \A c \in get_nodes_by_genesis(node_db, ret.arg.genesis) :
          Cardinality(children_of(node_db, ret.arg.genesis, c)) <= 1
    /\ find_heads(node_db, ret.arg.genesis) = {ret.cid[1]}

(* C39: in a repository built by non-import commits, with empty or         *)
(* explicit parents and with or without an auto-merge, each successful     *)
(* commit leaves latest(op.genesis) equal to the CID it returned.          *)
C39_LatestIsReturnedCid ==
    [][Committed => calculate_latest(node_db', ret'.op.genesis) = {ret'.cid}]_vars

(* an Update with an explicit parent left its family with two heads, and   *)
(* latest is the node the commit returned                                  *)
C39_Witness ==
    /\ ret.status = "ok" /\ ret.arg.kind = "Update" /\ ret.arg.parents # <<>>
    /\ HeadCount(node_db, ret.arg.genesis) = 2
    /\ calculate_latest(node_db, ret.arg.genesis) = {ret.cid}

(* C40: between operations every edge p -> c of the forward-edge cache     *)
(* leads to a stored node c that lists p among its parents, and no edge is *)
(* recorded twice.                                                         *)
C40_CacheMatchesStore ==
    \A p \in DOMAIN edges_forward :
       /\ \A i \in 1..Len(edges_forward[p]) :
             /\ HasNode(node_db, edges_forward[p][i])
             /\ p \in Range(GetNode(node_db, edges_forward[p][i]).parents)
       /\ \A i, j \in 1..Len(edges_forward[p]) :
             edges_forward[p][i] = edges_forward[p][j] => i = j

====
